---- MODULE Spec2Model ----
(***************************************************************************)
(* A model of the FAT16 FUSE driver (fat16_fuse.c).                        *)
(*                                                                         *)
(* The driver keeps all its state in one memory-mapped image: the FAT, the *)
(* root directory block and the data clusters.  The image is untyped: the  *)
(* same cluster is read as a directory block by the resolver and written   *)
(* as file data by fat_write.  The model therefore keeps every block as an *)
(* array of 32-byte cells; a cell is a directory entry record, and file    *)
(* data is written and read in whole cells (the model's unit of size is    *)
(* the size of one directory entry, so CLUSTER_SIZE counts cells and       *)
(* cluster_size / sizeof(fat16_dir_entry) = CLUSTER_SIZE).                 *)
(*                                                                         *)
(* Each handler is an operator from (image, arguments) to a result record  *)
(*   [err, n, fat, blk]                                                    *)
(* err = "OK" or the name of the negative errno returned, n = the byte     *)
(* count returned by read/write, fat/blk = the image after the call.       *)
(* err = "UB" marks an access outside the FAT or outside the data area     *)
(* (or a walk that never ends): the call has no defined result, and the    *)
(* model stops the mount there with the image as mutated so far.           *)
(***************************************************************************)
EXTENDS Integers, Sequences, FiniteSets, TLC

\* ---------------------------------------------------------------- bounds
\* meta->cluster_size, in cells (the source has 4096 bytes = 128 entries).
CLUSTER_SIZE == 3
\* meta->total_clusters (the source has 4094); data clusters are 2..TOTAL_CLUSTERS-1.
TOTAL_CLUSTERS == 4
\* Longest buffer handed to fat_write / longest read, in cells.
MaxLen == 4
\* Largest offset handed to fat_read / fat_write / largest truncate size.
MaxOff == 4
\* Handler calls per behaviour.
MaxOps == 4
\* Longest name drawn from the alphabet of names, and the creates per
\* behaviour that use such names.
MaxName == 5
NameOps == 2

\* ------------------------------------------------------ program constants
MAX_FILENAME == 8
MAX_EXTENSION == 3
ATTR_DIRECTORY == 16
ATTR_ARCHIVE == 32
FAT_ENTRY_FREE == 0
FAT_ENTRY_EOF == 65535
FAT_MEDIA == 65528

\* size_t arithmetic wraps; every wrapped value is far beyond any buffer or
\* chain of the model, which is all that the code's behaviour depends on.
SIZE_WRAP == 1048576

EntriesPerDir == CLUSTER_SIZE

Slots == 0 .. (EntriesPerDir - 1)
Clusters == 2 .. (TOTAL_CLUSTERS - 1)
\* Block 0 is the root directory region; block c >= 2 is data cluster c.
ROOT == 0
Blocks == {ROOT} \cup Clusters
BAD_BLOCK == 0 - 1

\* ------------------------------------------------------------- characters
NUL == "NUL"
DEL == "E5"
SP == " "

toupper(c) ==
    CASE c = "a" -> "A"
      [] c = "b" -> "B"
      [] c = "c" -> "C"
      [] c = "x" -> "X"
      [] OTHER -> c

tolower(c) ==
    CASE c = "A" -> "a"
      [] c = "B" -> "b"
      [] c = "C" -> "c"
      [] c = "X" -> "x"
      [] OTHER -> c

Fill(c, n) == [i \in 1 .. n |-> c]

\* ------------------------------------------------------------------ cells
\* fat16_dir_entry, without the fields no handler reads.
DirEntry(fn, ext, attr, fc, sz) ==
    [filename |-> fn, extension |-> ext, attributes |-> attr,
     first_cluster |-> fc, file_size |-> sz]

\* memset(entry, 0, sizeof(fat16_dir_entry))
ZeroEntry == DirEntry(Fill(NUL, MAX_FILENAME), Fill(NUL, MAX_EXTENSION), 0, 0, 0)

ZeroBlock == [i \in Slots |-> ZeroEntry]

IsLive(e) == e.filename[1] # NUL /\ e.filename[1] # DEL

HasDirAttr(e) == (e.attributes \div ATTR_DIRECTORY) % 2 = 1

\* ------------------------------------------------------------------ names
MinOr(S, none) == IF S = {} THEN none ELSE CHOOSE i \in S : \A j \in S : i <= j
MaxOr(S, none) == IF S = {} THEN none ELSE CHOOSE i \in S : \A j \in S : j <= i

\* strrchr(s, '.'): the index of the last dot, 0 when there is none.
LastDot(s) == MaxOr({i \in 1 .. Len(s) : s[i] = "."}, 0)

\* The loop of line 134 copies the characters before the FIRST dot, at most
\* MAX_FILENAME of them: the index where it stops, minus one.
StemLen(s) ==
    MinOr({i \in 1 .. Len(s) : s[i] = "." \/ i > MAX_FILENAME}, Len(s) + 1) - 1

\* Lines 132-137, dot = LastDot(path), n = StemLen(path).
FatName(path, dot, n) ==
    [name |-> [i \in 1 .. MAX_FILENAME |->
                  IF i <= n THEN toupper(path[i]) ELSE SP],
     ext |-> [i \in 1 .. MAX_EXTENSION |->
                  IF dot # 0 /\ dot < Len(path) /\ dot + i <= Len(path)
                  THEN toupper(path[dot + i]) ELSE SP]]

to_fat_name(path) == FatName(path, LastDot(path), StemLen(path))

DOT == <<".">>
DOTDOT == <<".", ".">>

\* The 8.3 pair find_entry_in_dir compares with (lines 151-162).
ReqName(name) ==
    IF name = DOT
    THEN [name |-> [i \in 1 .. MAX_FILENAME |-> IF i = 1 THEN "." ELSE SP],
          ext |-> Fill(SP, MAX_EXTENSION)]
    ELSE IF name = DOTDOT
    THEN [name |-> [i \in 1 .. MAX_FILENAME |-> IF i <= 2 THEN "." ELSE SP],
          ext |-> Fill(SP, MAX_EXTENSION)]
    ELSE to_fat_name(name)

\* ---------------------------------------------------------- image helpers
\* 0 when no cluster is free.
find_free_cluster(fat) ==
    MinOr({i \in 2 .. (TOTAL_CLUSTERS - 1) : fat[i] = FAT_ENTRY_FREE}, 0)

\* wraps: the build's pointer arithmetic wraps at 32 bits.
VARIABLE wraps

\* The block a cluster number addresses: data_area + (cluster - 2) * cluster_size.
\* For cluster 1 the product is (unsigned)-1 * cluster_size = 2^32 - cluster_size:
\* where pointers are 32 bits wide the sum wraps to the cluster-sized region
\* right before the data area, which is the root directory block; where they
\* are wider it lies outside the mapping.  Numbers outside the data area
\* address no block.
ClusterBlock(cluster) ==
    IF cluster = 1 THEN (IF wraps THEN ROOT ELSE BAD_BLOCK)
    ELSE IF cluster \in Clusters THEN cluster
    ELSE BAD_BLOCK

get_dir_from_cluster(cluster) ==
    IF cluster = 0 THEN ROOT ELSE ClusterBlock(cluster)

NO_SLOT == 0 - 1

\* The scan of lines 164-172 for the 8.3 pair req: the index found, NO_SLOT for NULL.
FirstMatch(blk, dir, req) ==
    MinOr({i \in Slots : /\ IsLive(blk[dir][i])
                         /\ blk[dir][i].filename = req.name
                         /\ blk[dir][i].extension = req.ext}, NO_SLOT)

find_entry_in_dir(blk, dir, name) == FirstMatch(blk, dir, ReqName(name))

\* A scan that never hands out the last slot of a block.
find_free_dir_entry_short(blk, dir) ==
    MinOr({i \in Slots : i < EntriesPerDir - 1 /\ blk[dir][i].filename[1] \in {NUL, DEL}}, NO_SLOT)

find_free_dir_entry(blk, dir) ==
    MinOr({i \in Slots : blk[dir][i].filename[1] \in {NUL, DEL}}, NO_SLOT)

\* ---------------------------------------------------------- path resolver
\* A path is the sequence of its components; "/" is the empty sequence.
\* The result: res, parent (block of *parent_dir_data), and the target
\* entry as (tb, ti) = (block, slot).
Resolved(res, parent, tb, ti) == [res |-> res, parent |-> parent, tb |-> tb, ti |-> ti]

RECURSIVE PathWalk(_, _, _, _)

\* A walk that descends through any entry it finds, directory or not.
PathStep_any(blk, path, k, current_dir, t) ==
    IF t = NO_SLOT THEN Resolved("ENOENT", current_dir, BAD_BLOCK, NO_SLOT)
    ELSE IF k = Len(path) THEN Resolved("OK", current_dir, current_dir, t)
    ELSE PathWalk(blk, path, k + 1,
                  get_dir_from_cluster(blk[current_dir][t].first_cluster))

\* Lines 205-222, t = the slot find_entry_in_dir returned for path[k].
PathStep(blk, path, k, current_dir, t) ==
    IF t = NO_SLOT THEN Resolved("ENOENT", current_dir, BAD_BLOCK, NO_SLOT)
    ELSE IF k = Len(path) THEN Resolved("OK", current_dir, current_dir, t)
    ELSE IF ~HasDirAttr(blk[current_dir][t])
         THEN Resolved("ENOTDIR", current_dir, current_dir, t)
    ELSE PathWalk(blk, path, k + 1,
                  get_dir_from_cluster(blk[current_dir][t].first_cluster))

\* The loop of lines 200-223; a directory entry whose first_cluster addresses
\* no block makes the scan read outside the image.
PathWalk(blk, path, k, current_dir) ==
    IF current_dir = BAD_BLOCK THEN Resolved("UB", BAD_BLOCK, BAD_BLOCK, NO_SLOT)
    ELSE PathStep(blk, path, k, current_dir,
                  find_entry_in_dir(blk, current_dir, path[k]))

find_path_entry(blk, path) ==
    IF path = <<>> THEN Resolved("OK", BAD_BLOCK, ROOT, 0)
    ELSE PathWalk(blk, path, 1, ROOT)

\* ------------------------------------------------------- handler results
Res(err, n, fat, blk) == [err |-> err, n |-> n, fat |-> fat, blk |-> blk]

SetEntry(blk, b, i, e) == [blk EXCEPT ![b][i] = e]

\* A zeroed entry with the name to_fat_name stores (lines 371-374, 416-420).
NamedEntry(f, attr, fc) == DirEntry(f.name, f.ext, attr, fc, 0)

NewEntry(basename, attr, fc) == NamedEntry(to_fat_name(basename), attr, fc)

DotEntry(fc) ==
    DirEntry([i \in 1 .. MAX_FILENAME |-> IF i = 1 THEN "." ELSE SP],
             Fill(SP, MAX_EXTENSION), ATTR_DIRECTORY, fc, 0)

DotDotEntry(fc) ==
    DirEntry([i \in 1 .. MAX_FILENAME |-> IF i <= 2 THEN "." ELSE SP],
             Fill(SP, MAX_EXTENSION), ATTR_DIRECTORY, fc, 0)

\* The block of a new directory: zeroed, then `.` and `..` (lines 376-394).
NewDirBlock(self, parent) ==
    [i \in Slots |-> IF i = 0 THEN DotEntry(self)
                     ELSE IF i = 1 THEN DotDotEntry(parent)
                     ELSE ZeroEntry]

Basename(path) == path[Len(path)]
ParentPath(path) == SubSeq(path, 1, Len(path) - 1)

\* ------------------------------------------------------------- fat_mkdir
\* Lines 369-396: the FAT entry, the parent's slot, then the new block.
MkdirAt(fat, blk, path, parent_dir_data, parent_cluster_id, new_entry, new_cluster_id) ==
    Res("OK", 0,
        [fat EXCEPT ![new_cluster_id] = FAT_ENTRY_EOF],
        [SetEntry(blk, parent_dir_data, new_entry,
                  NewEntry(Basename(path), ATTR_DIRECTORY, new_cluster_id))
            EXCEPT ![new_cluster_id] = NewDirBlock(new_cluster_id, parent_cluster_id)])

\* A mkdir that takes its cluster before it looks for a slot.
MkdirSlot_cluster_first(fat, blk, path, parent_dir_data, parent_cluster_id, new_entry, new_cluster_id) ==
    IF new_cluster_id = 0 THEN Res("ENOSPC", 0, fat, blk)
    ELSE IF new_entry = NO_SLOT
    THEN Res("ENOSPC", 0, [fat EXCEPT ![new_cluster_id] = FAT_ENTRY_EOF], blk)
    ELSE MkdirAt(fat, blk, path, parent_dir_data, parent_cluster_id,
                 new_entry, new_cluster_id)

\* A mkdir that fills the parent's slot before it looks for a cluster.
MkdirSlot_slot_first(fat, blk, path, parent_dir_data, parent_cluster_id, new_entry, new_cluster_id) ==
    IF new_entry = NO_SLOT THEN Res("ENOSPC", 0, fat, blk)
    ELSE IF new_cluster_id = 0
    THEN Res("ENOSPC", 0, fat,
             SetEntry(blk, parent_dir_data, new_entry,
                      NewEntry(Basename(path), ATTR_DIRECTORY, 0)))
    ELSE MkdirAt(fat, blk, path, parent_dir_data, parent_cluster_id,
                 new_entry, new_cluster_id)

\* Lines 364-368.
MkdirSlot(fat, blk, path, parent_dir_data, parent_cluster_id, new_entry, new_cluster_id) ==
    IF new_entry = NO_SLOT THEN Res("ENOSPC", 0, fat, blk)
    ELSE IF new_cluster_id = 0 THEN Res("ENOSPC", 0, fat, blk)
    ELSE MkdirAt(fat, blk, path, parent_dir_data, parent_cluster_id,
                 new_entry, new_cluster_id)

MkdirIn(fat, blk, path, parent_dir_data, parent_cluster_id) ==
    IF parent_dir_data = BAD_BLOCK THEN Res("UB", 0, fat, blk)
    ELSE MkdirSlot(fat, blk, path, parent_dir_data, parent_cluster_id,
                   find_free_dir_entry(blk, parent_dir_data), find_free_cluster(fat))

\* Lines 356-361, p = find_path_entry(parent_path).
MkdirParent(fat, blk, path, p) ==
    IF p.res = "UB" THEN Res("UB", 0, fat, blk)
    ELSE IF p.res # "OK" THEN Res("ENOENT", 0, fat, blk)
    ELSE IF ~HasDirAttr(blk[p.tb][p.ti]) THEN Res("ENOTDIR", 0, fat, blk)
    ELSE MkdirIn(fat, blk, path,
                 get_dir_from_cluster(blk[p.tb][p.ti].first_cluster),
                 blk[p.tb][p.ti].first_cluster)

\* Lines 344-362, exists = find_path_entry(path).
MkdirNew(fat, blk, path, exists) ==
    IF exists.res = "UB" THEN Res("UB", 0, fat, blk)
    ELSE IF exists.res = "OK" THEN Res("EEXIST", 0, fat, blk)
    ELSE IF Len(path) = 1 THEN MkdirIn(fat, blk, path, ROOT, 0)
    ELSE MkdirParent(fat, blk, path, find_path_entry(blk, ParentPath(path)))

fat_mkdir(fat, blk, path) ==
    IF path = <<>> THEN Res("EINVAL", 0, fat, blk)
    ELSE MkdirNew(fat, blk, path, find_path_entry(blk, path))

\* ------------------------------------------------------------ fat_create
\* Lines 413-421.
CreateAt(fat, blk, path, parent_dir_data, new_entry) ==
    IF new_entry = NO_SLOT THEN Res("ENOSPC", 0, fat, blk)
    ELSE Res("OK", 0, fat,
             SetEntry(blk, parent_dir_data, new_entry,
                      NewEntry(Basename(path), ATTR_ARCHIVE, FAT_ENTRY_EOF)))

\* Lines 407-413, r = find_path_entry(path): the entry goes into the block
\* find_path_entry left in *parent_dir_data, the directory where the walk stopped.
CreateIn(fat, blk, path, r) ==
    IF r.res = "OK" THEN Res("EEXIST", 0, fat, blk)
    ELSE IF r.res # "ENOENT" THEN Res(r.res, 0, fat, blk)
    ELSE CreateAt(fat, blk, path, r.parent, find_free_dir_entry(blk, r.parent))

fat_create(fat, blk, path) == CreateIn(fat, blk, path, find_path_entry(blk, path))

\* ------------------------------------------------------------ fat_unlink
\* The loop of lines 434-439; [ub, fat].  Every entry visited is set FREE,
\* so a second visit reads 0 and the loop ends.
\* A freeing loop that ends the chain at its first cluster instead of
\* releasing it.
FreeChain_eof(fat, cluster) ==
    IF cluster \in 2 .. (TOTAL_CLUSTERS - 1)
    THEN [ub |-> FALSE, fat |-> [fat EXCEPT ![cluster] = FAT_ENTRY_EOF]]
    ELSE [ub |-> FALSE, fat |-> fat]

RECURSIVE FreeChain(_, _)
FreeChain(fat, cluster) ==
    IF cluster = 0 \/ cluster = FAT_ENTRY_EOF THEN [ub |-> FALSE, fat |-> fat]
    ELSE IF cluster \notin DOMAIN fat THEN [ub |-> TRUE, fat |-> fat]
    ELSE FreeChain([fat EXCEPT ![cluster] = FAT_ENTRY_FREE], fat[cluster])

Tombstone(e) == [e EXCEPT !.filename[1] = DEL]

\* Line 440, f = the result of the freeing loop.
UnlinkFreed(blk, tb, ti, f) ==
    IF f.ub THEN Res("UB", 0, f.fat, blk)
    ELSE Res("OK", 0, f.fat, SetEntry(blk, tb, ti, Tombstone(blk[tb][ti])))

\* Lines 431-441, r = find_path_entry(path).
UnlinkAt(fat, blk, r) ==
    IF r.res # "OK" THEN Res(r.res, 0, fat, blk)
    ELSE IF HasDirAttr(blk[r.tb][r.ti]) THEN Res("EISDIR", 0, fat, blk)
    ELSE UnlinkFreed(blk, r.tb, r.ti, FreeChain(fat, blk[r.tb][r.ti].first_cluster))

fat_unlink(fat, blk, path) == UnlinkAt(fat, blk, find_path_entry(blk, path))

\* ------------------------------------------------------------- fat_rmdir
\* Lines 457-469, the target entry at (tb, ti) being a directory.
RmdirEntry(fat, blk, tb, ti, cluster, dir_data) ==
    IF dir_data = BAD_BLOCK THEN Res("UB", 0, fat, blk)
    ELSE IF \E i \in Slots : i >= 2 /\ IsLive(blk[dir_data][i])
         THEN Res("ENOTEMPTY", 0, fat, blk)
    ELSE Res("OK", 0,
             IF cluster # 0 THEN [fat EXCEPT ![cluster] = FAT_ENTRY_FREE] ELSE fat,
             SetEntry(blk, tb, ti, Tombstone(blk[tb][ti])))

\* Lines 454-457, r = find_path_entry(path).
RmdirAt(fat, blk, r) ==
    IF r.res # "OK" THEN Res(r.res, 0, fat, blk)
    ELSE IF ~HasDirAttr(blk[r.tb][r.ti]) THEN Res("ENOTDIR", 0, fat, blk)
    ELSE RmdirEntry(fat, blk, r.tb, r.ti, blk[r.tb][r.ti].first_cluster,
                    get_dir_from_cluster(blk[r.tb][r.ti].first_cluster))

\* An rmdir without the test of lines 449-451.
fat_rmdir_any(fat, blk, path) == RmdirAt(fat, blk, find_path_entry(blk, path))

fat_rmdir(fat, blk, path) ==
    IF path = <<>> THEN Res("EBUSY", 0, fat, blk)
    ELSE RmdirAt(fat, blk, find_path_entry(blk, path))

\* ---------------------------------------------------------- fat_truncate
\* Lines 605-608, r = find_path_entry(path).
TruncateAt(fat, blk, r, size) ==
    IF r.res # "OK" THEN Res(r.res, 0, fat, blk)
    ELSE IF HasDirAttr(blk[r.tb][r.ti]) THEN Res("EISDIR", 0, fat, blk)
    ELSE Res("OK", 0, fat,
             SetEntry(blk, r.tb, r.ti, [blk[r.tb][r.ti] EXCEPT !.file_size = size]))

fat_truncate(fat, blk, path, size) == TruncateAt(fat, blk, find_path_entry(blk, path), size)

\* ----------------------------------------------------------- fat_utimens
\* A utimens that does not look at the path.
fat_utimens_blind(blk, path) == "OK"

\* Lines 617-619: the result of the path resolution, nothing stored.
fat_utimens(blk, path) == find_path_entry(blk, path).res

\* ----------------------------------------------------------- fat_getattr
\* What the call leaves in *stbuf besides owner and times: the file type of
\* st_mode, st_nlink, st_size.
StatRes(err, type, nlink, size) == [err |-> err, type |-> type, nlink |-> nlink, size |-> size]

\* Lines 259-276, r = find_path_entry(path).  memset has zeroed the buffer, so
\* st_size is 0 for a directory.
GetattrAt(blk, r) ==
    IF r.res # "OK" THEN StatRes(r.res, "none", 0, 0)
    ELSE IF HasDirAttr(blk[r.tb][r.ti]) THEN StatRes("OK", "S_IFDIR", 2, 0)
    ELSE StatRes("OK", "S_IFREG", 1, blk[r.tb][r.ti].file_size)

fat_getattr(blk, path) ==
    IF path = <<>> THEN StatRes("OK", "S_IFDIR", 2, 0)
    ELSE GetattrAt(blk, find_path_entry(blk, path))

\* ----------------------------------------------------------- fat_readdir
\* A readdir result: err and the names handed to filler, in order.
RdRes(err, names) == [err |-> err, names |-> names]

\* The characters of field s before its first space, as stored.
UntilSpace_stored(s, n) ==
    [i \in 1 .. (MinOr({j \in 1 .. n : s[j] = SP}, n + 1) - 1) |-> s[i]]

\* The loops of lines 308 and 311: the characters of field s before its first
\* space, at most n of them, in lower case.
UntilSpace(s, n) ==
    [i \in 1 .. (MinOr({j \in 1 .. n : s[j] = SP}, n + 1) - 1) |-> tolower(s[i])]

\* Lines 306-314: name[.ext] of the record e.
EmittedName(e) ==
    UntilSpace(e.filename, MAX_FILENAME)
        \o (IF e.extension[1] # SP
            THEN <<".">> \o UntilSpace(e.extension, MAX_EXTENSION)
            ELSE <<>>)

\* Line 303: the 8 bytes of filename are those of a `.` or `..` record.
IsRawDot(e) ==
    \/ e.filename = [i \in 1 .. MAX_FILENAME |-> IF i = 1 THEN "." ELSE SP]
    \/ e.filename = [i \in 1 .. MAX_FILENAME |-> IF i <= 2 THEN "." ELSE SP]

\* The loop of lines 301-316 from slot i on.
RECURSIVE ReaddirFrom(_, _, _)
ReaddirFrom(blk, dir_data, i) ==
    IF i >= EntriesPerDir THEN <<>>
    ELSE (IF IsLive(blk[dir_data][i]) /\ ~IsRawDot(blk[dir_data][i])
          THEN <<EmittedName(blk[dir_data][i])>>
          ELSE <<>>) \o ReaddirFrom(blk, dir_data, i + 1)

\* Lines 298-317 for the directory block dir_data.
ReaddirIn(blk, dir_data) ==
    IF dir_data = BAD_BLOCK THEN RdRes("UB", <<>>)
    ELSE RdRes("OK", <<DOT, DOTDOT>> \o ReaddirFrom(blk, dir_data, 0))

\* Lines 291-295, r = find_path_entry(path).
ReaddirAt(blk, r) ==
    IF r.res # "OK" THEN RdRes(r.res, <<>>)
    ELSE IF ~HasDirAttr(blk[r.tb][r.ti]) THEN RdRes("ENOTDIR", <<>>)
    ELSE ReaddirIn(blk, get_dir_from_cluster(blk[r.tb][r.ti].first_cluster))

fat_readdir(blk, path) ==
    IF path = <<>> THEN ReaddirIn(blk, ROOT)
    ELSE ReaddirAt(blk, find_path_entry(blk, path))

\* ------------------------------------------------------------- fat_write
Min(a, b) == IF a <= b THEN a ELSE b

\* The counting loop of lines 533-536 and 563-566: [ub, n].  A walk of more
\* than TOTAL_CLUSTERS links has met a cluster twice and never ends.
RECURSIVE CountFrom(_, _, _)
CountFrom(fat, c, n) ==
    IF c = FAT_ENTRY_EOF \/ c = FAT_ENTRY_FREE THEN [ub |-> FALSE, n |-> n]
    ELSE IF c \notin DOMAIN fat \/ n > TOTAL_CLUSTERS THEN [ub |-> TRUE, n |-> n]
    ELSE CountFrom(fat, fat[c], n + 1)

ChainCount(fat, first_cluster) ==
    IF first_cluster # 0 /\ first_cluster # FAT_ENTRY_EOF
    THEN CountFrom(fat, first_cluster, 0)
    ELSE [ub |-> FALSE, n |-> 0]

\* Line 545: while (fat_table[last_cluster] != EOF) last_cluster = fat_table[last_cluster];
\* [ub, c].
RECURSIVE LastFrom(_, _, _)
LastFrom(fat, last_cluster, walked) ==
    IF last_cluster \notin DOMAIN fat \/ walked > TOTAL_CLUSTERS
    THEN [ub |-> TRUE, c |-> last_cluster]
    ELSE IF fat[last_cluster] = FAT_ENTRY_EOF THEN [ub |-> FALSE, c |-> last_cluster]
    ELSE LastFrom(fat, fat[last_cluster], walked + 1)

\* Lines 542-546.
LastCluster(fat, first_cluster) ==
    IF first_cluster # 0 /\ first_cluster # FAT_ENTRY_EOF
    THEN LastFrom(fat, first_cluster, 0)
    ELSE [ub |-> FALSE, c |-> 0]

RECURSIVE Extend(_, _, _, _, _, _)

\* Lines 549-556, new_cluster = find_free_cluster().
ExtendWith(fat, blk, tb, ti, last_cluster, todo, new_cluster) ==
    IF new_cluster = 0 THEN [ub |-> FALSE, fat |-> fat, blk |-> blk]
    ELSE Extend(IF last_cluster = 0
                THEN [fat EXCEPT ![new_cluster] = FAT_ENTRY_EOF]
                ELSE [fat EXCEPT ![new_cluster] = FAT_ENTRY_EOF,
                                 ![last_cluster] = new_cluster],
                IF last_cluster = 0
                THEN SetEntry(blk, tb, ti,
                              [blk[tb][ti] EXCEPT !.first_cluster = new_cluster])
                ELSE blk,
                tb, ti, new_cluster, todo - 1)

\* The allocation loop of lines 547-557, `todo` clusters still missing; the
\* entry is at (tb, ti).  [ub, fat, blk].
Extend(fat, blk, tb, ti, last_cluster, todo) ==
    IF todo = 0 THEN [ub |-> FALSE, fat |-> fat, blk |-> blk]
    ELSE ExtendWith(fat, blk, tb, ti, last_cluster, todo, find_free_cluster(fat))

\* Lines 547-557 after the walk to the tail, last = its result.
ExtendFrom(fat, blk, tb, ti, todo, last) ==
    IF last.ub THEN [ub |-> TRUE, fat |-> fat, blk |-> blk]
    ELSE Extend(fat, blk, tb, ti, last.c, todo)

\* Lines 541-558: [ub, fat, blk].
ExtendChain(fat, blk, tb, ti, required_clusters, current_clusters_count) ==
    IF required_clusters <= current_clusters_count
    THEN [ub |-> FALSE, fat |-> fat, blk |-> blk]
    ELSE ExtendFrom(fat, blk, tb, ti, required_clusters - current_clusters_count,
                    LastCluster(fat, blk[tb][ti].first_cluster))

\* Line 538.
RequiredClusters(required_size) == (required_size + CLUSTER_SIZE - 1) \div CLUSTER_SIZE

\* Lines 569-572 as the compiler reads them: the second `if` is the body of
\* the first, so size is changed only when offset >= max_writable_size, and
\* then to max_writable_size - offset in size_t arithmetic.
ClampSize(size, offset, max_writable_size) ==
    IF offset >= max_writable_size /\ offset + size > max_writable_size
    THEN IF max_writable_size >= offset THEN max_writable_size - offset
         ELSE SIZE_WRAP + max_writable_size - offset
    ELSE size

\* The skipping loop of lines 577-580 (write: no end-of-chain test): [ub, c, off].
RECURSIVE SkipW(_, _, _, _)
SkipW(fat, current_cluster, current_offset, offset) ==
    IF current_offset + CLUSTER_SIZE > offset
    THEN [ub |-> FALSE, c |-> current_cluster, off |-> current_offset]
    ELSE IF current_cluster \notin DOMAIN fat
    THEN [ub |-> TRUE, c |-> current_cluster, off |-> current_offset]
    ELSE SkipW(fat, fat[current_cluster], current_offset + CLUSTER_SIZE, offset)

\* memcpy(cluster_ptr + offset_in_cluster, buf + bytes_written, n)
CopyIn(blk, b, offset_in_cluster, buf, bytes_written, n) ==
    [blk EXCEPT ![b] = [i \in Slots |->
        IF i >= offset_in_cluster /\ i < offset_in_cluster + n
        THEN buf[bytes_written + (i - offset_in_cluster) + 1]
        ELSE blk[b][i]]]

RECURSIVE CopyW(_, _, _, _, _, _, _, _)

\* Lines 585-592, to_write cells going to block b.  Copying from beyond the
\* end of buf, or to a cluster number that addresses no block, is undefined.
CopyChunk(fat, blk, buf, size, offset, current_cluster, current_offset, bytes_written, to_write, b) ==
    IF b = BAD_BLOCK \/ bytes_written + to_write > Len(buf)
    THEN [ub |-> TRUE, blk |-> blk, n |-> bytes_written]
    ELSE IF bytes_written + to_write >= size
            \/ fat[current_cluster] = FAT_ENTRY_EOF
            \/ fat[current_cluster] = FAT_ENTRY_FREE
    THEN [ub |-> FALSE,
          blk |-> CopyIn(blk, b, offset + bytes_written - current_offset, buf,
                         bytes_written, to_write),
          n |-> bytes_written + to_write]
    ELSE CopyW(fat,
               CopyIn(blk, b, offset + bytes_written - current_offset, buf,
                      bytes_written, to_write),
               buf, size, offset, fat[current_cluster],
               current_offset + CLUSTER_SIZE, bytes_written + to_write)

\* The copying loop of lines 581-593: [ub, blk, n].
CopyW(fat, blk, buf, size, offset, current_cluster, current_offset, bytes_written) ==
    IF bytes_written >= size THEN [ub |-> FALSE, blk |-> blk, n |-> bytes_written]
    ELSE CopyChunk(fat, blk, buf, size, offset, current_cluster, current_offset,
                   bytes_written,
                   Min(CLUSTER_SIZE - (offset + bytes_written - current_offset),
                       size - bytes_written),
                   ClusterBlock(current_cluster))

\* Lines 594-595, w = the result of the copying loop.
WriteCopied(fat, tb, ti, offset, w) ==
    IF w.ub THEN Res("UB", 0, fat, w.blk)
    ELSE Res("OK", w.n, fat,
             IF offset + w.n > w.blk[tb][ti].file_size
             THEN SetEntry(w.blk, tb, ti,
                           [w.blk[tb][ti] EXCEPT !.file_size = offset + w.n])
             ELSE w.blk)

\* Lines 574-593, s = the result of the skipping loop.
WriteSkipped(fat, blk, tb, ti, buf, size, offset, s) ==
    IF s.ub THEN Res("UB", 0, fat, blk)
    ELSE WriteCopied(fat, tb, ti, offset,
                     CopyW(fat, blk, buf, size, offset, s.c, s.off, 0))

\* Lines 568-580, c2 = the chain length counted after the extension.
WriteRecounted(fat, blk, tb, ti, buf, offset, c2) ==
    IF c2.ub THEN Res("UB", 0, fat, blk)
    ELSE WriteSkipped(fat, blk, tb, ti, buf,
                      ClampSize(Len(buf), offset, c2.n * CLUSTER_SIZE), offset,
                      SkipW(fat, blk[tb][ti].first_cluster, 0, offset))

\* Lines 560-567, x = the image after the extension.
WriteExtended(tb, ti, buf, offset, x) ==
    IF x.ub THEN Res("UB", 0, x.fat, x.blk)
    ELSE WriteRecounted(x.fat, x.blk, tb, ti, buf, offset,
                        ChainCount(x.fat, x.blk[tb][ti].first_cluster))

\* Lines 538-558, c1 = the chain length counted before the extension.
WriteCounted(fat, blk, tb, ti, buf, offset, c1) ==
    IF c1.ub THEN Res("UB", 0, fat, blk)
    ELSE WriteExtended(tb, ti, buf, offset,
                       ExtendChain(fat, blk, tb, ti,
                                   RequiredClusters(offset + Len(buf)), c1.n))

\* Lines 529-595, the entry at (tb, ti) being a regular file and size > 0.
WriteEntry(fat, blk, tb, ti, buf, offset) ==
    WriteCounted(fat, blk, tb, ti, buf, offset,
                 ChainCount(fat, blk[tb][ti].first_cluster))

\* Lines 525-527, r = find_path_entry(path).
WriteAt(fat, blk, r, buf, offset) ==
    IF r.res # "OK" THEN Res(r.res, 0, fat, blk)
    ELSE IF HasDirAttr(blk[r.tb][r.ti]) THEN Res("EISDIR", 0, fat, blk)
    ELSE IF Len(buf) = 0 THEN Res("OK", 0, fat, blk)
    ELSE WriteEntry(fat, blk, r.tb, r.ti, buf, offset)

fat_write(fat, blk, path, buf, offset) ==
    WriteAt(fat, blk, find_path_entry(blk, path), buf, offset)

\* -------------------------------------------------------------- fat_read
\* A read result: err, n = the count returned, data = the n cells copied.
RRes(err, n, data) == [err |-> err, n |-> n, data |-> data]

\* The skipping loop of lines 495-499: [ub, eof, c, off].
RECURSIVE SkipR(_, _, _, _)
SkipR(fat, current_cluster, current_offset, offset) ==
    IF current_offset + CLUSTER_SIZE > offset
    THEN [ub |-> FALSE, eof |-> FALSE, c |-> current_cluster, off |-> current_offset]
    ELSE IF current_cluster \notin DOMAIN fat
    THEN [ub |-> TRUE, eof |-> FALSE, c |-> current_cluster, off |-> current_offset]
    ELSE IF fat[current_cluster] = FAT_ENTRY_EOF \/ fat[current_cluster] = FAT_ENTRY_FREE
    THEN [ub |-> FALSE, eof |-> TRUE, c |-> fat[current_cluster], off |-> current_offset]
    ELSE SkipR(fat, fat[current_cluster], current_offset + CLUSTER_SIZE, offset)

\* blk[b][from .. from + n - 1]
Cells(blk, b, from, n) == [i \in 1 .. n |-> blk[b][from + i - 1]]

RECURSIVE CopyR(_, _, _, _, _, _, _)

\* Lines 504-511, to_read cells coming from block b.
ReadChunk(fat, blk, size, offset, current_cluster, current_offset, out, to_read, b) ==
    IF b = BAD_BLOCK THEN [ub |-> TRUE, data |-> out]
    ELSE IF Len(out) + to_read >= size
            \/ fat[current_cluster] = FAT_ENTRY_EOF
            \/ fat[current_cluster] = FAT_ENTRY_FREE
    THEN [ub |-> FALSE,
          data |-> out \o Cells(blk, b, offset + Len(out) - current_offset, to_read)]
    ELSE CopyR(fat, blk, size, offset, fat[current_cluster],
               current_offset + CLUSTER_SIZE,
               out \o Cells(blk, b, offset + Len(out) - current_offset, to_read))

\* The copying loop of lines 500-512: [ub, data].
CopyR(fat, blk, size, offset, current_cluster, current_offset, out) ==
    IF Len(out) >= size THEN [ub |-> FALSE, data |-> out]
    ELSE ReadChunk(fat, blk, size, offset, current_cluster, current_offset, out,
                   Min(CLUSTER_SIZE - (offset + Len(out) - current_offset),
                       size - Len(out)),
                   ClusterBlock(current_cluster))

\* Line 513, c = the result of the copying loop.
ReadCopied(c) == IF c.ub THEN RRes("UB", 0, <<>>) ELSE RRes("OK", Len(c.data), c.data)

\* Lines 495-512, s = the result of the skipping loop.
ReadSkipped(fat, blk, size, offset, s) ==
    IF s.ub THEN RRes("UB", 0, <<>>)
    ELSE IF s.eof THEN RRes("OK", 0, <<>>)
    ELSE ReadCopied(CopyR(fat, blk, size, offset, s.c, s.off, <<>>))

\* Lines 483-499 for the entry found.
ReadEntry(fat, entry, blk, size, offset) ==
    IF HasDirAttr(entry) THEN RRes("EISDIR", 0, <<>>)
    ELSE IF offset >= entry.file_size THEN RRes("OK", 0, <<>>)
    ELSE IF Min(size, entry.file_size - offset) = 0 THEN RRes("OK", 0, <<>>)
    ELSE IF entry.first_cluster = FAT_ENTRY_EOF \/ entry.first_cluster = FAT_ENTRY_FREE
         THEN RRes("OK", 0, <<>>)
    ELSE ReadSkipped(fat, blk, Min(size, entry.file_size - offset), offset,
                     SkipR(fat, entry.first_cluster, 0, offset))

\* Lines 480-483, r = find_path_entry(path).
ReadAt(fat, blk, r, size, offset) ==
    IF r.res # "OK" THEN RRes(r.res, 0, <<>>)
    ELSE ReadEntry(fat, blk[r.tb][r.ti], blk, size, offset)

fat_read(fat, blk, path, size, offset) ==
    ReadAt(fat, blk, find_path_entry(blk, path), size, offset)

\* ----------------------------------------------------------------- inputs
nA == <<"a">>
nB == <<"b">>
nX == <<"x">>

\* "/", "/a", "/b", "/a/b", "/a/x", "/a/.", "/a/.."
Paths == {<<>>, <<nA>>, <<nB>>, <<nA, nB>>, <<nA, nX>>, <<nA, DOT>>, <<nA, DOTDOT>>}

\* File content is arbitrary bytes; these are the two 32-byte patterns the
\* model writes: all zero, and the image of an entry "X" with first_cluster 1.
DataX == NamedEntry(to_fat_name(nX), ATTR_ARCHIVE, 1)
DataVals == {ZeroEntry, DataX}

\* The buffers written: the two patterns alternate, so neighbouring cells differ.
Pattern(n, k) == [i \in 1 .. n |-> IF (i + k) % 2 = 0 THEN DataX ELSE ZeroEntry]
Bufs == {Pattern(n, k) : n \in 1 .. MaxLen, k \in 0 .. 1}
Offsets == 0 .. MaxOff

\* ----------------------------------------------------------- state machine
\* fat, blk: the mapped image.  steps: the calls served so far.  alive: no
\* call has run into undefined behaviour.  mount: "new" while the mount that
\* formatted the image lasts, "none" between fat_destroy and the next
\* fat_init, "old" while a mount that opened the existing image lasts.
\* pc, loc: the position and the local variables of each host thread that is
\* inside a handler (used when the host delivers upcalls from several threads).
\* meta: the superblock.  probe: the last data cluster whose address was
\* computed from it, with the byte offset found.
VARIABLES fat, blk, steps, alive, mount, pc, loc, meta, probe

vars == <<fat, blk, steps, alive, mount, pc, loc, wraps, meta, probe>>

Threads == {1, 2}
Locals(path, parent_dir_data, parent_cluster_id, new_entry, new_cluster_id) ==
    [path |-> path, parent_dir_data |-> parent_dir_data,
     parent_cluster_id |-> parent_cluster_id, new_entry |-> new_entry,
     new_cluster_id |-> new_cluster_id]
NoLocals == Locals(<<>>, BAD_BLOCK, 0, NO_SLOT, 0)

\* The image after the format of lines 654-668.
FormatFat == [i \in 0 .. (TOTAL_CLUSTERS - 1) |->
                 IF i = 0 THEN FAT_MEDIA ELSE IF i = 1 THEN FAT_ENTRY_EOF
                 ELSE FAT_ENTRY_FREE]
FormatBlk == [b \in Blocks |-> ZeroBlock]

\* ------------------------------------------------------------ disk layout
\* The byte sizes of the source: DISK_SIZE, CLUSTER_SIZE, sizeof(fs_metadata)
\* and sizeof(uint16_t).
DISK_SIZE == 16777216
CLUSTER_BYTES == 4096
SIZEOF_META == 20
SIZEOF_FAT_ENTRY == 2

\* Offsets are counted in 16-bit words: every size above is even, so every
\* offset the format computes is a whole number of words, and the 2^32 bytes
\* at which a uint32_t wraps are 2^31 words.
WORD == 2
Words(bytes) == bytes \div WORD
U32_MAX_WORDS == 2147483647
U32(w) ==
    IF w < 0 THEN (w + U32_MAX_WORDS) + 1
    ELSE IF w > U32_MAX_WORDS THEN (w - U32_MAX_WORDS) - 1
    ELSE w
U16(x) == x % 65536

\* The superblock with the fields of fs_metadata, the offsets and the
\* cluster size in words.
Meta(total_clusters, fat_start_offset, root_dir_start_offset, data_area_start_offset, cluster_size) ==
    [total_clusters |-> total_clusters, fat_start_offset |-> fat_start_offset,
     root_dir_start_offset |-> root_dir_start_offset,
     data_area_start_offset |-> data_area_start_offset, cluster_size |-> cluster_size]

\* A format that lets the FAT take no room when the clusters are counted.
TotalClusters_nofat(current_offset) ==
    U32(Words(DISK_SIZE) - current_offset) \div Words(CLUSTER_BYTES)

\* Line 661: the bytes left after the superblock, a uint32_t, divided by the
\* bytes a cluster and its FAT entry take.
TotalClusters(current_offset) ==
    U32(Words(DISK_SIZE) - current_offset) \div Words(CLUSTER_BYTES + SIZEOF_FAT_ENTRY)

\* Lines 659-666: current_offset, a uint32_t, runs over the regions.
FormatFrom(current_offset, total_clusters, cluster_size) ==
    Meta(total_clusters, current_offset,
         U32(current_offset + total_clusters * Words(SIZEOF_FAT_ENTRY)),
         U32(U32(current_offset + total_clusters * Words(SIZEOF_FAT_ENTRY)) + cluster_size),
         cluster_size)

FormatMeta ==
    FormatFrom(Words(SIZEOF_META), TotalClusters(Words(SIZEOF_META)), Words(CLUSTER_BYTES))

\* Lines 115-120 for a data cluster: the offset in the mapping of the pointer
\* returned, the index being a uint16_t and the product a uint32_t.
ClusterOffset(m, cluster) ==
    m.data_area_start_offset + U32((U16(cluster) - 2) * m.cluster_size)

Probe(cluster, offset) == [cluster |-> cluster, offset |-> offset]
NoProbe == Probe(0, 0)

Init ==
    /\ fat = FormatFat
    /\ blk = FormatBlk
    /\ steps = 0
    /\ alive = TRUE
    /\ mount = "new"
    /\ pc = [t \in Threads |-> "idle"]
    /\ loc = [t \in Threads |-> NoLocals]
    /\ wraps \in BOOLEAN
    /\ meta = FormatMeta
    /\ probe = NoProbe

\* A fat_init that formats whatever it opens.
fat_init_reformat(exists, f, b) == [fat |-> FormatFat, blk |-> FormatBlk]

\* fat_init: a missing image file is created and formatted (lines 637-669);
\* an existing one is mapped as it is and the views are bound to it (670-681).
fat_init(exists, f, b) ==
    IF exists THEN [fat |-> f, blk |-> b]
    ELSE [fat |-> FormatFat, blk |-> FormatBlk]

\* fat_destroy: msync and munmap of the shared mapping; the file holds the
\* image as the handlers left it.
fat_destroy(f, b) == [fat |-> f, blk |-> b]

CanCall == alive /\ mount # "none" /\ steps < MaxOps

Apply(r) ==
    /\ fat' = r.fat
    /\ blk' = r.blk
    /\ steps' = steps + 1
    /\ alive' = (r.err # "UB")
    /\ UNCHANGED <<mount, pc, loc, wraps, meta, probe>>

\* A call's outcome depends on the buffer, the offset and the size only when
\* the path resolves to a regular file; otherwise one call stands for all.
IsFileEntry(r) == r.res = "OK" /\ ~HasDirAttr(blk[r.tb][r.ti])
IsFile(p) == IsFileEntry(find_path_entry(blk, p))

WriteArgs(p) == IF IsFile(p) THEN Bufs \X Offsets ELSE {<<Pattern(1, 0), 0>>}
TruncateArgs(p) == IF IsFile(p) THEN Offsets ELSE {0}
ReadArgs(p) == IF IsFile(p) THEN (1 .. MaxLen) \X Offsets ELSE {<<1, 0>>}

Mkdir == CanCall /\ \E p \in Paths : Apply(fat_mkdir(fat, blk, p))

Rmdir == CanCall /\ \E p \in Paths : Apply(fat_rmdir(fat, blk, p))

Create == CanCall /\ \E p \in Paths : Apply(fat_create(fat, blk, p))

Unlink == CanCall /\ \E p \in Paths : Apply(fat_unlink(fat, blk, p))

Write ==
    /\ CanCall
    /\ \E p \in Paths : \E a \in WriteArgs(p) : Apply(fat_write(fat, blk, p, a[1], a[2]))

Truncate ==
    /\ CanCall
    /\ \E p \in Paths : \E size \in TruncateArgs(p) : Apply(fat_truncate(fat, blk, p, size))

\* fat_read changes nothing in the image; only a call with no defined result
\* is visible in the state.
Read ==
    /\ CanCall
    /\ \E p \in Paths : \E a \in ReadArgs(p) :
          /\ alive' = (fat_read(fat, blk, p, a[1], a[2]).err # "UB")
          /\ steps' = steps + 1
          /\ UNCHANGED <<fat, blk, mount, pc, loc, wraps, meta, probe>>

\* fat_getattr changes nothing in the image either.
Getattr ==
    /\ CanCall
    /\ \E p \in Paths :
          /\ alive' = (fat_getattr(blk, p).err # "UB")
          /\ steps' = steps + 1
          /\ UNCHANGED <<fat, blk, mount, pc, loc, wraps, meta, probe>>

\* Nor does fat_readdir.
Readdir ==
    /\ CanCall
    /\ \E p \in Paths :
          /\ alive' = (fat_readdir(blk, p).err # "UB")
          /\ steps' = steps + 1
          /\ UNCHANGED <<fat, blk, mount, pc, loc, wraps, meta, probe>>

\* Nor does fat_utimens.
Utimens ==
    /\ CanCall
    /\ \E p \in Paths :
          /\ alive' = (fat_utimens(blk, p) # "UB")
          /\ steps' = steps + 1
          /\ UNCHANGED <<fat, blk, mount, pc, loc, wraps, meta, probe>>

\* Unmount: fat_destroy runs once, when the mount ends.
Destroy ==
    /\ CanCall
    /\ fat' = fat_destroy(fat, blk).fat
    /\ blk' = fat_destroy(fat, blk).blk
    /\ mount' = "none"
    /\ steps' = steps + 1
    /\ UNCHANGED <<alive, pc, loc, wraps, meta, probe>>

\* The next mount of the same image file: open(image_path, O_RDWR) succeeds
\* because the first mount created the file.
Mount ==
    /\ alive /\ mount = "none"
    /\ fat' = fat_init(TRUE, fat, blk).fat
    /\ blk' = fat_init(TRUE, fat, blk).blk
    /\ mount' = "old"
    /\ UNCHANGED <<steps, alive, pc, loc, wraps, meta, probe>>

Next ==
    Mkdir \/ Rmdir \/ Create \/ Unlink \/ Write \/ Truncate \/ Read \/ Getattr
        \/ Readdir \/ Utimens \/ Destroy \/ Mount

Spec == Init /\ [][Next]_vars

\* ------------------------------------------ a last call that only reads
\* Any MaxOps - 1 calls of the handlers that store, then one call of a
\* handler that only reads.
Building ==
    /\ steps < MaxOps - 1
    /\ (Mkdir \/ Rmdir \/ Create \/ Unlink \/ Write \/ Truncate)

Serving ==
    /\ steps = MaxOps - 1
    /\ (Read \/ Getattr \/ Readdir \/ Utimens)

NextServe == Building \/ Serving

SpecServe == Init /\ [][NextServe]_vars

\* ------------------------------------------------ mounting an old image
\* fat_init maps whatever image file it finds (lines 670-681) and checks
\* nothing in it.  The images below are files left by an earlier mount or
\* written by another tool: a formatted FAT whose data entries hold any of
\* FREE, EOF or a cluster number, and a root with one regular file "A".
FatLinks == {FAT_ENTRY_FREE, FAT_ENTRY_EOF} \cup Clusters

OldFat(links) == [i \in 0 .. (TOTAL_CLUSTERS - 1) |-> IF i \in Clusters THEN links[i] ELSE FormatFat[i]]

OldBlk(first_cluster, file_size) ==
    [FormatBlk EXCEPT ![ROOT][0] =
        [NamedEntry(to_fat_name(nA), ATTR_ARCHIVE, first_cluster) EXCEPT !.file_size = file_size]]

InitImage ==
    /\ \E links \in [Clusters -> FatLinks] : fat = OldFat(links)
    /\ \E first_cluster \in {FAT_ENTRY_EOF} \cup Clusters : \E file_size \in {0, MaxLen} :
          blk = OldBlk(first_cluster, file_size)
    /\ steps = MaxOps - 1
    /\ alive = TRUE
    /\ mount = "none"
    /\ pc = [t \in Threads |-> "idle"]
    /\ loc = [t \in Threads |-> NoLocals]
    /\ wraps \in BOOLEAN
    /\ meta = FormatMeta
    /\ probe = NoProbe

SpecImage == InitImage /\ [][Next]_vars

\* ------------------------------------------- locating the data clusters
\* One call of get_dir_from_cluster for a data cluster of the formatted image.
Locate ==
    /\ probe = NoProbe
    /\ \E cluster \in 2 .. (meta.total_clusters - 1) :
          probe' = Probe(cluster, ClusterOffset(meta, cluster))
    /\ UNCHANGED <<fat, blk, steps, alive, mount, pc, loc, wraps, meta>>

SpecLayout == Init /\ [][Locate]_vars

\* ------------------------------------------------- creates of many names
\* The names handed to fat_create: every string of 1 .. MaxName characters
\* over 'a', 'b', '.', and two names longer than the 8.3 fields.
NameChars == {"a", "b", "."}
LongNames == {<<"a", "b", "a", "b", "a", "b", "a", "b", "a">>,
              <<"a", "a", "a", "a", "b", "b", "b", "b", "a", ".", "a", "b", "a", "b">>}
Names == UNION {[1 .. n -> NameChars] : n \in 1 .. MaxName} \cup LongNames

CreateName ==
    /\ alive /\ mount # "none" /\ steps < NameOps
    /\ \E name \in Names : Apply(fat_create(fat, blk, <<name>>))

SpecNames == Init /\ [][CreateName]_vars

\* ------------------------------------------- upcalls from several threads
\* fuse_main runs the multi-threaded session loop unless the user passes -s,
\* and no handler takes a lock.  A handler run by thread t is split where its
\* reads end and its writes begin: the first step resolves the path and picks
\* the slot (and the cluster), the second one writes through those locals.
\* A call that returns an error has no second step.
Returned(t, r) ==
    /\ alive' = (r.err # "UB")
    /\ steps' = steps + 1
    /\ UNCHANGED <<fat, blk, mount, pc, loc, wraps, meta, probe>>

Entered(t, kind, l) ==
    /\ pc' = [pc EXCEPT ![t] = kind]
    /\ loc' = [loc EXCEPT ![t] = l]
    /\ UNCHANGED <<fat, blk, steps, alive, mount, wraps, meta, probe>>

Left(t, r) ==
    /\ fat' = r.fat
    /\ blk' = r.blk
    /\ steps' = steps + 1
    /\ pc' = [pc EXCEPT ![t] = "idle"]
    /\ loc' = [loc EXCEPT ![t] = NoLocals]
    /\ UNCHANGED <<alive, mount, wraps, meta, probe>>

CanEnter(t) == CanCall /\ pc[t] = "idle"

\* fat_create, lines 406-414.
CreateLocals(path, r) ==
    Locals(path, r.parent, 0, find_free_dir_entry(blk, r.parent), 0)

CreateRead ==
    \E t \in Threads : \E p \in Paths :
        /\ CanEnter(t)
        /\ IF fat_create(fat, blk, p).err = "OK"
           THEN Entered(t, "create", CreateLocals(p, find_path_entry(blk, p)))
           ELSE Returned(t, fat_create(fat, blk, p))

\* fat_create, lines 416-421.
CreateWrite ==
    \E t \in Threads :
        /\ alive /\ pc[t] = "create"
        /\ Left(t, CreateAt(fat, blk, loc[t].path, loc[t].parent_dir_data, loc[t].new_entry))

\* fat_mkdir, lines 327-368.
MkdirLocals(path, parent_cluster_id) ==
    Locals(path, get_dir_from_cluster(parent_cluster_id), parent_cluster_id,
           find_free_dir_entry(blk, get_dir_from_cluster(parent_cluster_id)),
           find_free_cluster(fat))

MkdirParentCluster(path, p) == IF Len(path) = 1 THEN 0 ELSE blk[p.tb][p.ti].first_cluster

MkdirRead ==
    \E t \in Threads : \E p \in Paths :
        /\ CanEnter(t)
        /\ IF fat_mkdir(fat, blk, p).err = "OK"
           THEN Entered(t, "mkdir",
                        MkdirLocals(p, MkdirParentCluster(p, find_path_entry(blk, ParentPath(p)))))
           ELSE Returned(t, fat_mkdir(fat, blk, p))

\* fat_mkdir, lines 369-396.
MkdirWrite ==
    \E t \in Threads :
        /\ alive /\ pc[t] = "mkdir"
        /\ Left(t, MkdirAt(fat, blk, loc[t].path, loc[t].parent_dir_data,
                           loc[t].parent_cluster_id, loc[t].new_entry, loc[t].new_cluster_id))

NextMT == CreateRead \/ CreateWrite \/ MkdirRead \/ MkdirWrite

SpecMT == Init /\ [][NextMT]_vars

\* ------------------------------------------------- the directory tree
\* The blocks read as directories: the root block and the block of every
\* live directory entry found in such a block.
RECURSIVE DirClosure(_, _)
DirClosure(b, S) ==
    LET T == S \cup ({get_dir_from_cluster(b[d][i].first_cluster) :
                        <<d, i>> \in {x \in S \X Slots :
                                        IsLive(b[x[1]][x[2]]) /\ HasDirAttr(b[x[1]][x[2]])}}
                     \ {BAD_BLOCK})
    IN  IF T = S THEN S ELSE DirClosure(b, T)

DirBlocks == DirClosure(blk, {ROOT})

IsDotRecord(e) == e.filename = DotEntry(0).filename \/ e.filename = DotDotEntry(0).filename

\* The live entries of the tree, as <<block, slot>>, without the `.` and
\* `..` records.
LiveEntries ==
    {x \in DirBlocks \X Slots : IsLive(blk[x[1]][x[2]]) /\ ~IsDotRecord(blk[x[1]][x[2]])}

EntryAt(x) == blk[x[1]][x[2]]

\* The clusters of the chain that starts at c in FAT f.
RECURSIVE ChainClusters(_, _, _)
ChainClusters(f, c, seen) ==
    IF c \notin Clusters \/ c \in seen THEN seen
    ELSE ChainClusters(f, f[c], seen \cup {c})

ChainOf(f, c) == ChainClusters(f, c, {})
ChainLength(f, c) == Cardinality(ChainOf(f, c))

\* The chain from c visits only data clusters and ends in EOF within
\* TOTAL_CLUSTERS steps.
RECURSIVE EndsInEof(_, _, _)
EndsInEof(f, c, n) ==
    IF c = FAT_ENTRY_EOF THEN TRUE
    ELSE IF c \notin Clusters \/ n >= TOTAL_CLUSTERS THEN FALSE
    ELSE EndsInEof(f, f[c], n + 1)

FreeCount(f) == Cardinality({c \in Clusters : f[c] = FAT_ENTRY_FREE})

\* The names readdir emits for the live slots of block d (lines 301-316).
ListedName(e) ==
    [stem |-> SelectSeq([i \in 1 .. MAX_FILENAME |-> tolower(e.filename[i])],
                        LAMBDA ch : ch # SP),
     ext |-> SelectSeq([i \in 1 .. MAX_EXTENSION |-> tolower(e.extension[i])],
                       LAMBDA ch : ch # SP)]

Listing(b, d) ==
    {ListedName(b[d][i]) : i \in {j \in Slots : IsLive(b[d][j]) /\ ~IsDotRecord(b[d][j])}}

\* ------------------------------------------------------------------ claims

\* C1: create(path) whose intermediate (non-final) component does not exist
\* returns ENOENT and changes no directory block and no FAT entry.
C1_CreateMissingParentENOENT ==
    \A p \in Paths :
        (Len(p) >= 2 /\ find_path_entry(blk, ParentPath(p)).res = "ENOENT")
        => /\ fat_create(fat, blk, p).err = "ENOENT"
           /\ fat_create(fat, blk, p).fat = fat
           /\ fat_create(fat, blk, p).blk = blk

\* C2: a write that cannot allocate every cluster it needs returns exactly
\* min(size, max(0, L * cluster_size - offset)), L being the chain length
\* after the extension attempt, for every offset, and every cluster it did
\* allocate is linked into the file's chain.
WriteFitsClaim(p, buf, off, w) ==
    LET r == find_path_entry(blk, p)
        L == ChainLength(w.fat, w.blk[r.tb][r.ti].first_cluster)
        fits == IF L * CLUSTER_SIZE > off THEN L * CLUSTER_SIZE - off ELSE 0
    IN  (FreeCount(w.fat) = 0 /\ RequiredClusters(off + Len(buf)) > L)
        => /\ w.err = "OK"
           /\ w.n = Min(Len(buf), fits)
           /\ \A c \in Clusters :
                 (fat[c] = FAT_ENTRY_FREE /\ w.fat[c] # FAT_ENTRY_FREE)
                 => c \in ChainOf(w.fat, w.blk[r.tb][r.ti].first_cluster)

IsLiveFile(p) ==
    /\ p # <<>>
    /\ find_path_entry(blk, p).res = "OK"
    /\ ~HasDirAttr(blk[find_path_entry(blk, p).tb][find_path_entry(blk, p).ti])

C2_FullDiskWriteTruncated ==
    \A p \in Paths :
        IsLiveFile(p)
        => \A buf \in Bufs, off \in Offsets :
               WriteFitsClaim(p, buf, off, fat_write(fat, blk, p, buf, off))

\* C3: every regular-file entry has file_size <= chain_length * cluster_size
\* (chain length 0 for the EOF sentinel).
C3_SizeWithinChain ==
    \A x \in LiveEntries :
        ~HasDirAttr(EntryAt(x))
        => EntryAt(x).file_size
              <= ChainLength(fat, EntryAt(x).first_cluster) * CLUSTER_SIZE

\* C4: no cluster appears in the chains of two distinct live entries.
C4_NoSharedCluster ==
    \A x \in LiveEntries, y \in LiveEntries :
        x # y => ChainOf(fat, EntryAt(x).first_cluster)
                    \cap ChainOf(fat, EntryAt(y).first_cluster) = {}

\* C5: the chain of every live entry visits only clusters 2..total_clusters-1
\* and reaches EOF within total_clusters steps.
C5_ChainsEndInEof ==
    \A x \in LiveEntries : EndsInEof(fat, EntryAt(x).first_cluster, 0)

\* C6: no live entry and no chain link refers to a cluster whose FAT entry
\* is FREE.
C6_NoFreeClusterReferenced ==
    \A x \in LiveEntries :
        /\ EntryAt(x).first_cluster \in Clusters
              => fat[EntryAt(x).first_cluster] # FAT_ENTRY_FREE
        /\ \A c \in ChainOf(fat, EntryAt(x).first_cluster) : fat[c] # FAT_ENTRY_FREE

\* C7: the block of every live non-root directory entry pointing to cluster
\* C holds a live `.` with first_cluster C and a live `..` with first_cluster
\* the parent directory's cluster (0 for the root).
HasRecord(d, rec) ==
    \E i \in Slots :
        /\ IsLive(blk[d][i])
        /\ blk[d][i].filename = rec.filename
        /\ blk[d][i].extension = rec.extension
        /\ blk[d][i].first_cluster = rec.first_cluster

C7_DotAndDotDot ==
    \A x \in LiveEntries :
        HasDirAttr(EntryAt(x))
        => /\ EntryAt(x).first_cluster \in Clusters
           /\ HasRecord(EntryAt(x).first_cluster, DotEntry(EntryAt(x).first_cluster))
           /\ HasRecord(EntryAt(x).first_cluster, DotDotEntry(x[1]))

\* C8: FAT[0] = 0xFFF8 and FAT[1] = 0xFFFF in every reachable state, and no
\* handler call changes entries 0 and 1.
KeepsReserved(r) == r.fat[0] = FAT_MEDIA /\ r.fat[1] = FAT_ENTRY_EOF

C8_ReservedFatEntries ==
    /\ fat[0] = FAT_MEDIA
    /\ fat[1] = FAT_ENTRY_EOF
    /\ \A p \in Paths :
          /\ KeepsReserved(fat_mkdir(fat, blk, p))
          /\ KeepsReserved(fat_rmdir(fat, blk, p))
          /\ KeepsReserved(fat_create(fat, blk, p))
          /\ KeepsReserved(fat_unlink(fat, blk, p))
          /\ \A size \in Offsets : KeepsReserved(fat_truncate(fat, blk, p, size))
          /\ \A buf \in Bufs, off \in Offsets :
                KeepsReserved(fat_write(fat, blk, p, buf, off))

\* C9: for an existing regular file p and data whose clusters can all be
\* allocated, write(p, data, 0) returns len(data) and the following
\* read(p, 0, len(data)) returns exactly data.
RoundTrip(p, buf, w) ==
    /\ w.err = "OK"
    /\ w.n = Len(buf)
    /\ fat_read(w.fat, w.blk, p, Len(buf), 0) = RRes("OK", Len(buf), buf)

CanAllocate(p, buf) ==
    RequiredClusters(Len(buf))
       <= ChainLength(fat, blk[find_path_entry(blk, p).tb][find_path_entry(blk, p).ti].first_cluster)
          + FreeCount(fat)

C9_WriteReadRoundTrip ==
    \A p \in Paths :
        IsLiveFile(p)
        => \A buf \in Bufs :
               CanAllocate(p, buf) => RoundTrip(p, buf, fat_write(fat, blk, p, buf, 0))

\* C10: for a path p that does not exist and whose parent directory has a
\* free slot, create(p), any write to p that returns, unlink(p) leave the
\* parent's listing and the whole FAT as they were before.
ParentDir(p) ==
    IF Len(p) = 1 THEN ROOT
    ELSE get_dir_from_cluster(
            blk[find_path_entry(blk, ParentPath(p)).tb][find_path_entry(blk, ParentPath(p)).ti].first_cluster)

CanCreate(p) ==
    /\ p # <<>>
    /\ find_path_entry(blk, p).res = "ENOENT"
    /\ Len(p) > 1 =>
          /\ find_path_entry(blk, ParentPath(p)).res = "OK"
          /\ HasDirAttr(blk[find_path_entry(blk, ParentPath(p)).tb][find_path_entry(blk, ParentPath(p)).ti])
    /\ ParentDir(p) # BAD_BLOCK
    /\ find_free_dir_entry(blk, ParentDir(p)) # NO_SLOT

Restored(p, u) ==
    /\ u.err = "OK"
    /\ u.fat = fat
    /\ Listing(u.blk, ParentDir(p)) = Listing(blk, ParentDir(p))

UnlinkAfter(p, w) == w.err # "UB" => Restored(p, fat_unlink(w.fat, w.blk, p))

WriteThenUnlink(p, c) ==
    /\ c.err = "OK"
    /\ UnlinkAfter(p, c)
    /\ \A buf \in Bufs, off \in Offsets :
          UnlinkAfter(p, fat_write(c.fat, c.blk, p, buf, off))

C10_CreateUnlinkRestores ==
    \A p \in Paths : CanCreate(p) => WriteThenUnlink(p, fat_create(fat, blk, p))

\* C11: for a path p that does not exist, a successful mkdir(p) followed by
\* rmdir(p) leaves the parent's listing and the whole FAT as they were.
RmdirAfter(p, m) == m.err = "OK" => Restored(p, fat_rmdir(m.fat, m.blk, p))

C11_MkdirRmdirRestores ==
    \A p \in Paths :
        (p # <<>> /\ find_path_entry(blk, p).res # "OK")
        => RmdirAfter(p, fat_mkdir(fat, blk, p))

\* C12: fat_destroy followed by fat_init on the existing image changes no
\* byte of the image: every path resolves to the same entry and every file
\* reads back the same bytes as before the unmount.
SameTree(f, b) ==
    \A p \in Paths :
        /\ find_path_entry(b, p) = find_path_entry(blk, p)
        /\ IsFile(p) => fat_read(f, b, p, MaxLen, 0) = fat_read(fat, blk, p, MaxLen, 0)

C12_RemountPreserves ==
    [][(mount' # mount) => (fat' = fat /\ blk' = blk /\ SameTree(fat', blk'))]_vars

C12_Witness ==
    /\ mount = "old"
    /\ \E p \in Paths : IsLiveFile(p) /\ fat_read(fat, blk, p, MaxLen, 0).n > 0

\* C13: when the host delivers upcalls from several threads, at most one
\* handler invocation at a time is between its first read and its last write
\* of the FAT, the directory blocks and the data area.
C13_OneHandlerAtATime == Cardinality({t \in Threads : pc[t] # "idle"}) <= 1

\* C14: every chain walk of read, write and unlink is bounded by
\* total_clusters steps: on an image whose FAT holds a cycle the handler
\* terminates and reports EIO.
RECURSIVE Cycles(_, _, _)
Cycles(f, c, n) ==
    IF c \notin Clusters THEN FALSE
    ELSE IF n > TOTAL_CLUSTERS THEN TRUE
    ELSE Cycles(f, f[c], n + 1)

OnCycle(p) ==
    /\ mount # "none"
    /\ IsLiveFile(p)
    /\ Cycles(fat, blk[find_path_entry(blk, p).tb][find_path_entry(blk, p).ti].first_cluster, 0)

C14_WalksReportEIO ==
    \A p \in Paths :
        OnCycle(p)
        => /\ fat_unlink(fat, blk, p).err = "EIO"
           /\ \A buf \in Bufs, off \in Offsets : fat_write(fat, blk, p, buf, off).err = "EIO"
           /\ \A size \in 1 .. MaxLen, off \in Offsets : fat_read(fat, blk, p, size, off).err = "EIO"

\* C15: whenever the path resolves to a directory, the root path "/"
\* included, unlink, read, write and truncate return EISDIR and change
\* nothing in the image.
ResolvesToDir(p) ==
    \/ p = <<>>
    \/ /\ find_path_entry(blk, p).res = "OK"
       /\ HasDirAttr(blk[find_path_entry(blk, p).tb][find_path_entry(blk, p).ti])

Rejected(r) == r.err = "EISDIR" /\ r.fat = fat /\ r.blk = blk

C15_DirectoriesRejected ==
    \A p \in Paths :
        ResolvesToDir(p)
        => /\ Rejected(fat_unlink(fat, blk, p))
           /\ \A size \in Offsets : Rejected(fat_truncate(fat, blk, p, size))
           /\ \A buf \in Bufs, off \in Offsets : Rejected(fat_write(fat, blk, p, buf, off))
           /\ \A size \in 1 .. MaxLen, off \in Offsets :
                 fat_read(fat, blk, p, size, off).err = "EISDIR"

\* C16: rmdir on a directory that holds a live entry other than `.` and `..`
\* returns ENOTEMPTY and leaves the FAT and every block unchanged; when no
\* such entry is left, rmdir of the directory returns 0.
TargetBlock(p) ==
    get_dir_from_cluster(blk[find_path_entry(blk, p).tb][find_path_entry(blk, p).ti].first_cluster)

IsDirTarget(p) == p # <<>> /\ ResolvesToDir(p) /\ TargetBlock(p) # BAD_BLOCK

HoldsEntry(d) == \E i \in Slots : IsLive(blk[d][i]) /\ ~IsDotRecord(blk[d][i])

RmdirChecksEmpty(p, r) ==
    IF HoldsEntry(TargetBlock(p))
    THEN r.err = "ENOTEMPTY" /\ r.fat = fat /\ r.blk = blk
    ELSE r.err = "OK"

C16_RmdirNotEmpty ==
    \A p \in Paths : IsDirTarget(p) => RmdirChecksEmpty(p, fat_rmdir(fat, blk, p))

\* C17 (as stated): after entries_per_dir - 1 entries have been created one
\* after another in a directory, creating the next one, the
\* entries_per_dir-th, returns ENOSPC.
ClaimPaths == Paths \cup {<<nX>>}

NewIn(p) ==
    /\ p # <<>>
    /\ find_path_entry(blk, p).res = "ENOENT"
    /\ Len(p) > 1 => ResolvesToDir(ParentPath(p))
    /\ ParentDir(p) # BAD_BLOCK

Used(d) == Cardinality({i \in Slots : blk[d][i].filename[1] \notin {NUL, DEL}})

Created(d) ==
    Cardinality({i \in Slots : IsLive(blk[d][i]) /\ ~IsDotRecord(blk[d][i])})

CreatedInARow(d, n) == Created(d) = n /\ \A i \in Slots : blk[d][i].filename[1] # DEL

C17_NthEntryENOSPC ==
    \A p \in ClaimPaths :
        (NewIn(p) /\ CreatedInARow(ParentDir(p), EntriesPerDir - 1))
        => /\ fat_create(fat, blk, p).err = "ENOSPC"
           /\ fat_mkdir(fat, blk, p).err = "ENOSPC"

\* C17 (amended): create and mkdir return ENOSPC for a new entry exactly when
\* all entries_per_dir slots of the directory are in use (`.` and `..` of a
\* subdirectory included): the entries_per_dir-th entry is still created,
\* the next one is refused.  mkdir also returns ENOSPC when no cluster is free.
FillsLastSlot(p, d) ==
    IF Used(d) = EntriesPerDir
    THEN /\ fat_create(fat, blk, p).err = "ENOSPC"
         /\ fat_mkdir(fat, blk, p).err = "ENOSPC"
    ELSE /\ fat_create(fat, blk, p).err = "OK"
         /\ fat_mkdir(fat, blk, p).err = (IF find_free_cluster(fat) = 0 THEN "ENOSPC" ELSE "OK")

C17_FullDirENOSPC == \A p \in ClaimPaths : NewIn(p) => FillsLastSlot(p, ParentDir(p))

C17_Witness ==
    /\ \E p \in ClaimPaths :
          NewIn(p) /\ Used(ParentDir(p)) = EntriesPerDir /\ fat_create(fat, blk, p).err = "ENOSPC"
    /\ \E p \in ClaimPaths :
          NewIn(p) /\ Used(ParentDir(p)) = EntriesPerDir - 1 /\ fat_create(fat, blk, p).err = "OK"

\* C18: when the parent directory has no slot whose first byte is 0x00 or
\* 0xE5, create and mkdir of a new name return ENOSPC, allocate no cluster
\* and change no entry, and every file reads back the same bytes.
Refused(r) == r.err = "ENOSPC" /\ r.fat = fat /\ r.blk = blk /\ SameTree(r.fat, r.blk)

C18_FullParentRefuses ==
    \A p \in ClaimPaths :
        (NewIn(p) /\ find_free_dir_entry(blk, ParentDir(p)) = NO_SLOT)
        => Refused(fat_create(fat, blk, p)) /\ Refused(fat_mkdir(fat, blk, p))

C18_Witness ==
    \E p \in ClaimPaths :
        /\ NewIn(p)
        /\ find_free_dir_entry(blk, ParentDir(p)) = NO_SLOT
        /\ find_free_cluster(fat) # 0
        /\ fat_mkdir(fat, blk, p).err = "ENOSPC"
        /\ fat_create(fat, blk, p).err = "ENOSPC"

\* C19: in every state mkdir("/") returns EINVAL and rmdir("/") returns
\* EBUSY, and neither call changes the image.
C19_RootNeitherMadeNorRemoved ==
    /\ fat_mkdir(fat, blk, <<>>) = Res("EINVAL", 0, fat, blk)
    /\ fat_rmdir(fat, blk, <<>>) = Res("EBUSY", 0, fat, blk)

C19_Witness ==
    /\ steps > 0
    /\ \E i \in Slots : IsLive(blk[ROOT][i]) /\ HasDirAttr(blk[ROOT][i])
    /\ \A i \in Slots : i >= 2 => ~IsLive(blk[ROOT][i])
    /\ fat_mkdir(fat, blk, <<>>).err = "EINVAL"
    /\ fat_rmdir(fat, blk, <<>>).err = "EBUSY"

\* The cells of the blocks that the chain starting at c addresses, in chain
\* order, for at most k clusters; the chain ends at EOF, at a free mark or at
\* a number that addresses no block.
RECURSIVE ChainCells(_, _, _, _)
ChainCells(f, b, c, k) ==
    IF k = 0 \/ c \notin DOMAIN f \/ c = FAT_ENTRY_FREE \/ ClusterBlock(c) = BAD_BLOCK
    THEN <<>>
    ELSE [i \in 1 .. CLUSTER_SIZE |-> b[ClusterBlock(c)][i - 1]]
             \o ChainCells(f, b, f[c], k - 1)

\* Enough clusters to hold every cell a read of the model can ask for.
ReadSpan == (MaxOff + MaxLen) \div CLUSTER_SIZE + 1

FileEntry(p) == blk[find_path_entry(blk, p).tb][find_path_entry(blk, p).ti]
FileContent(p) == ChainCells(fat, blk, FileEntry(p).first_cluster, ReadSpan)

\* What the chain holds of the want cells asked for at offset off.
Held(content, off, want) ==
    IF Len(content) <= off THEN 0 ELSE Min(want, Len(content) - off)

ReadsAs(p, size, off, content, want) ==
    fat_read(fat, blk, p, size, off)
        = RRes("OK", Held(content, off, want),
               SubSeq(content, off + 1, off + Held(content, off, want)))

\* C20: read(path, size, offset) on a regular file returns 0 when
\* offset >= file_size; otherwise it returns min(size, file_size - offset)
\* cells, equal to the file's content at [offset, offset + n), whenever the
\* chain covers file_size, and only the cells the chain holds from offset on
\* when the chain ends before that.
C20_ReadReturnsContent ==
    \A p \in Paths :
        IsLiveFile(p)
        => \A size \in 0 .. MaxLen, off \in Offsets :
               IF off >= FileEntry(p).file_size
               THEN fat_read(fat, blk, p, size, off) = RRes("OK", 0, <<>>)
               ELSE ReadsAs(p, size, off, FileContent(p),
                            Min(size, FileEntry(p).file_size - off))

Max(a, b) == IF a >= b THEN a ELSE b

\* ceil(n / cluster_size)
ClustersFor(n) == (n + CLUSTER_SIZE - 1) \div CLUSTER_SIZE

\* The chain length of the file at p in the image (f, b).
ChainLengthAt(f, b, p) ==
    ChainLength(f, b[find_path_entry(blk, p).tb][find_path_entry(blk, p).ti].first_cluster)

\* The free clusters suffice to bring the chain of p to n clusters.
EnoughFree(p, n) == FreeCount(fat) >= n - ChainLengthAt(fat, blk, p)

WriteGrowsChainTo(p, w, n) ==
    /\ w.err = "OK"
    /\ ChainLengthAt(w.fat, w.blk, p) = Max(ChainLengthAt(fat, blk, p), n)
    /\ FreeCount(w.fat) = FreeCount(fat) - (Max(ChainLengthAt(fat, blk, p), n) - ChainLengthAt(fat, blk, p))

\* C21: with enough free clusters, after write(p, size > 0, offset) the chain
\* of p has exactly max(old chain length, ceil((offset + size) / cluster_size))
\* clusters, and the write has taken no cluster beyond that count.
C21_WriteChainLength ==
    \A p \in Paths :
        IsLiveFile(p)
        => \A buf \in Bufs, off \in Offsets :
               EnoughFree(p, ClustersFor(off + Len(buf)))
               => WriteGrowsChainTo(p, fat_write(fat, blk, p, buf, off),
                                    ClustersFor(off + Len(buf)))

\* c is the free cluster of f with the smallest index.
IsLowestFreeCluster(f, c) ==
    /\ c \in Clusters
    /\ f[c] = FAT_ENTRY_FREE
    /\ \A d \in Clusters : d < c => f[d] # FAT_ENTRY_FREE

\* i is the lowest slot of block d whose first byte is 0x00 or 0xE5.
IsLowestFreeSlot(b, d, i) ==
    /\ i \in Slots
    /\ ~IsLive(b[d][i])
    /\ \A j \in Slots : j < i => IsLive(b[d][j])

\* The clusters that are free in f and in use in g.
Taken(f, g) == {c \in Clusters : f[c] = FAT_ENTRY_FREE /\ g[c] # FAT_ENTRY_FREE}

\* No free cluster of f below a taken one was left out.
TookLowest(f, g) ==
    \A c \in Taken(f, g) : \A d \in Clusters :
        (d < c /\ f[d] = FAT_ENTRY_FREE) => d \in Taken(f, g)

\* The image b2 is b with one record put into the lowest free slot of a block.
InsertedLowest(b, b2) ==
    \E d \in Blocks : \E i \in Slots :
        /\ IsLowestFreeSlot(b, d, i)
        /\ IsLive(b2[d][i])
        /\ b2 = SetEntry(b, d, i, b2[d][i])

\* mkdir took the lowest free cluster and, outside that cluster's block, put
\* one record into the lowest free slot of a block.
MkdirLowest(m) ==
    \E c \in Clusters : \E d \in Blocks : \E i \in Slots :
        /\ IsLowestFreeCluster(fat, c)
        /\ m.fat = [fat EXCEPT ![c] = FAT_ENTRY_EOF]
        /\ IsLowestFreeSlot(blk, d, i)
        /\ d # c => IsLive(m.blk[d][i])
        /\ \A x \in Blocks \ {c} : m.blk[x] = SetEntry(blk, d, i, m.blk[d][i])[x]

\* create(p) having returned c: unlink(p) = u, then create(p) again.
CreateAgain(p, c, u) ==
    /\ u.err = "OK"
    /\ fat_create(u.fat, u.blk, p) = c

\* C22: allocation is lowest-index-first.  The allocator returns the free
\* cluster with the smallest index >= 2, an insertion uses the lowest slot
\* whose first byte is 0x00 or 0xE5, and so create(x); unlink(x); create(x)
\* succeeds and puts x into the same slot again, for every x whose parent
\* directory exists.
C22_LowestIndexFirst ==
    /\ find_free_cluster(fat) # 0 => IsLowestFreeCluster(fat, find_free_cluster(fat))
    /\ find_free_cluster(fat) = 0 => \A c \in Clusters : fat[c] # FAT_ENTRY_FREE
    /\ \A d \in Blocks :
          /\ find_free_dir_entry(blk, d) # NO_SLOT
                => IsLowestFreeSlot(blk, d, find_free_dir_entry(blk, d))
          /\ find_free_dir_entry(blk, d) = NO_SLOT => \A i \in Slots : IsLive(blk[d][i])
    /\ \A p \in ClaimPaths \cup {<<DOT>>} :
          /\ fat_create(fat, blk, p).err = "OK"
                => InsertedLowest(blk, fat_create(fat, blk, p).blk)
          /\ (NewIn(p) /\ fat_create(fat, blk, p).err = "OK")
                => CreateAgain(p, fat_create(fat, blk, p),
                               fat_unlink(fat_create(fat, blk, p).fat,
                                          fat_create(fat, blk, p).blk, p))
          /\ fat_mkdir(fat, blk, p).err = "OK" => MkdirLowest(fat_mkdir(fat, blk, p))
          /\ IsLiveFile(p)
                => \A buf \in Bufs, off \in {0, MaxOff} :
                       fat_write(fat, blk, p, buf, off).err = "OK"
                       => TookLowest(fat, fat_write(fat, blk, p, buf, off).fat)

\* The record of p, where it was before the write, in the image b.
RecordOf(b, p) == b[find_path_entry(blk, p).tb][find_path_entry(blk, p).ti]

SizeAfterWrite(p, off, w) ==
    /\ RecordOf(w.blk, p).file_size = Max(RecordOf(blk, p).file_size, off + w.n)
    /\ fat_getattr(w.blk, p)
          = StatRes("OK", "S_IFREG", 1, Max(RecordOf(blk, p).file_size, off + w.n))

\* C23: after a write of size > 0 that returns n, the entry's file_size is
\* max(old file_size, offset + n), and getattr on the path reports this size.
C23_WriteSetsSize ==
    \A p \in Paths :
        IsLiveFile(p)
        => \A buf \in Bufs, off \in Offsets :
               fat_write(fat, blk, p, buf, off).err = "OK"
               => SizeAfterWrite(p, off, fat_write(fat, blk, p, buf, off))

\* Cluster d is free in f and in use in g: the call has allocated it.
JustAllocated(f, g, d) == d \in Clusters /\ f[d] = FAT_ENTRY_FREE /\ g[d] # FAT_ENTRY_FREE

\* What one handler call may do to FAT entry c, from f to g: nothing;
\* FREE -> EOF; EOF -> a cluster the same call has allocated; FREE -> EOF and
\* then EOF -> such a cluster (one call allocating two clusters); in use -> FREE.
FatStepAllowed(f, g, c) ==
    \/ g[c] = f[c]
    \/ f[c] = FAT_ENTRY_FREE /\ g[c] = FAT_ENTRY_EOF
    \/ f[c] = FAT_ENTRY_EOF /\ JustAllocated(f, g, g[c])
    \/ f[c] = FAT_ENTRY_FREE /\ JustAllocated(f, g, g[c])
    \/ f[c] # FAT_ENTRY_FREE /\ g[c] = FAT_ENTRY_FREE

\* C24: every change a handler makes to a FAT entry with index >= 2 is an
\* allocation FREE -> EOF, a tail extension EOF -> cluster just allocated, or
\* a release in use -> FREE; no call replaces a link by another link or marks
\* an in-use cluster EOF.  Stated for calls whose behaviour is defined.
C24_FatTransitions ==
    [][alive' => \A c \in Clusters : FatStepAllowed(fat, fat', c)]_vars

\* The file /a was created, written over two clusters and unlinked:
\* allocation, tail extension and release have all happened.
C24_Witness ==
    /\ steps = 3
    /\ alive
    /\ blk[ROOT][0].filename = [to_fat_name(nA).name EXCEPT ![1] = DEL]
    /\ ~HasDirAttr(blk[ROOT][0])
    /\ blk[ROOT][0].first_cluster = 2
    /\ blk[ROOT][0].file_size > CLUSTER_SIZE
    /\ \A c \in Clusters : fat[c] = FAT_ENTRY_FREE

\* The index of the last '.' of name, 0 when it has none.
LastDotOf(name) ==
    IF \E i \in 1 .. Len(name) : name[i] = "."
    THEN CHOOSE i \in 1 .. Len(name) :
            name[i] = "." /\ \A j \in (i + 1) .. Len(name) : name[j] # "."
    ELSE 0

StemOf(name) ==
    IF LastDotOf(name) = 0 THEN name ELSE SubSeq(name, 1, LastDotOf(name) - 1)

ExtOf(name) ==
    IF LastDotOf(name) = 0 THEN <<>> ELSE SubSeq(name, LastDotOf(name) + 1, Len(name))

\* s in upper case, cut to n characters and padded with spaces.
Field(s, n) == [i \in 1 .. n |-> IF i <= Len(s) THEN toupper(s[i]) ELSE SP]

\* The 8.3 pair of a name split at its last dot.
SplitAtLastDot(name) ==
    [name |-> Field(StemOf(name), MAX_FILENAME), ext |-> Field(ExtOf(name), MAX_EXTENSION)]

\* The names x.y.z with one-letter parts.
TwoDots == {<<x, ".", y, ".", z>> : x \in {"a", "b"}, y \in {"a", "b"}, z \in {"a", "b"}}

\* create(<<name>>) having returned c: the root has received the record
\* whose name is the name split at its last dot.
StoredSplit(name, c) ==
    \E i \in Slots :
        c.blk = SetEntry(blk, ROOT, i,
                         NamedEntry(SplitAtLastDot(name), ATTR_ARCHIVE, FAT_ENTRY_EOF))

\* C25: the 8.3 encoding splits a name at its LAST dot: the stored stem is
\* the upper case of what stands before it (the whole name when there is no
\* dot), cut to 8 and padded with spaces, the stored extension the upper case
\* of what follows it, cut to 3 and padded; so two names that differ before
\* their last dot are different files: the second create is not refused as a
\* duplicate of the first.
C25_SplitsAtLastDot ==
    /\ \A name \in Names :
          fat_create(fat, blk, <<name>>).err = "OK"
          => StoredSplit(name, fat_create(fat, blk, <<name>>))
    /\ \A n1 \in TwoDots, n2 \in TwoDots :
          (StemOf(n1) # StemOf(n2) /\ fat_create(fat, blk, <<n1>>).err = "OK")
          => fat_create(fat_create(fat, blk, <<n1>>).fat,
                        fat_create(fat, blk, <<n1>>).blk, <<n2>>).err # "EEXIST"

\* The name a listing shows for record e: its stem, and a dot and its
\* extension when it has one, in lower case and without the padding.
ShownName(e) ==
    ListedName(e).stem
        \o (IF ListedName(e).ext # <<>> THEN <<".">> \o ListedName(e).ext ELSE <<>>)

\* The slots of block d of image b that hold a live record other than a raw
\* `.` or `..` record.
ShownSlots(b, d) == {i \in Slots : IsLive(b[d][i]) /\ ~IsDotRecord(b[d][i])}

\* The k-th of them, in slot order.
ShownSlot(b, d, k) ==
    CHOOSE i \in ShownSlots(b, d) : Cardinality({j \in ShownSlots(b, d) : j < i}) = k - 1

\* names is `.`, `..`, and then the name of each shown slot of block d, once.
ListsBlock(b, d, names) ==
    /\ Len(names) = 2 + Cardinality(ShownSlots(b, d))
    /\ names[1] = DOT
    /\ names[2] = DOTDOT
    /\ \A k \in 3 .. Len(names) :
          /\ names[k] = ShownName(b[d][ShownSlot(b, d, k - 2)])
          /\ names[k] # DOT
          /\ names[k] # DOTDOT

\* The directory block that path p names in image b, BAD_BLOCK when p names
\* no directory.
DirBlockAt(b, p) ==
    IF p = <<>> THEN ROOT
    ELSE IF find_path_entry(b, p).res = "OK"
            /\ HasDirAttr(b[find_path_entry(b, p).tb][find_path_entry(b, p).ti])
    THEN get_dir_from_cluster(b[find_path_entry(b, p).tb][find_path_entry(b, p).ti].first_cluster)
    ELSE BAD_BLOCK

IsDirPath(b, p) ==
    \/ p = <<>>
    \/ /\ find_path_entry(b, p).res = "OK"
       /\ HasDirAttr(b[find_path_entry(b, p).tb][find_path_entry(b, p).ti])

\* readdir lists every directory of image b as described.
ListsAll(b) ==
    \A p \in Paths :
        IsDirPath(b, p)
        => /\ fat_readdir(b, p).err = "OK"
           /\ ListsBlock(b, DirBlockAt(b, p), fat_readdir(b, p).names)

\* Names with an extension: short, and longer than both fields.
ExtNames == {<<"a", ".", "b">>,
             <<"a", "a", "a", "a", "b", "b", "b", "b", "a", ".", "a", "b", "a", "b">>}

\* C26: readdir of any directory, root or not, emits `.` and `..` first and
\* once each, then one lower-case name[.ext] for every live slot that is not
\* a raw `.`/`..` record, and nothing for tombstones and never-used slots; on
\* a freshly formatted image readdir("/") yields `.` and `..` only.  Checked
\* on the image of every state and on that image after one more create of a
\* name with an extension, in the root and in /a.
C26_ReaddirLists ==
    /\ ListsAll(blk)
    /\ \A name \in ExtNames :
          /\ ListsAll(fat_create(fat, blk, <<name>>).blk)
          /\ ListsAll(fat_create(fat, blk, <<nA, name>>).blk)
    /\ (fat = FormatFat /\ blk = FormatBlk) => fat_readdir(blk, <<>>).names = <<DOT, DOTDOT>>

\* The root holds directory A, a tombstone and a never-used slot; /a holds
\* its `.` and `..` records and one entry.
C26_Witness ==
    /\ fat_readdir(blk, <<>>) = RdRes("OK", <<DOT, DOTDOT, nA>>)
    /\ blk[ROOT][1].filename[1] = DEL
    /\ blk[ROOT][2].filename[1] = NUL
    /\ fat_readdir(blk, <<nA>>) = RdRes("OK", <<DOT, DOTDOT, nB>>)
    /\ IsDotRecord(blk[2][0])
    /\ IsDotRecord(blk[2][1])
    /\ fat_readdir(fat_create(fat, blk, <<<<"a", ".", "b">>>>).blk, <<>>).names
          = <<DOT, DOTDOT, nA, <<"a", ".", "b">>>>

\* The paths resolved: those of the calls, and "/a/../a", "/a/../b",
\* "/b/a", "/a/b/x", "/x/a".
ResolvePaths ==
    ClaimPaths \cup {<<nA, DOTDOT, nA>>, <<nA, DOTDOT, nB>>, <<nB, nA>>, <<nA, nB, nX>>, <<nX, nA>>}

\* The lowest slot of block d of image b whose live record carries the 8.3
\* pair of name, byte for byte; NO_SLOT when there is none.
MatchIn(b, d, name) ==
    IF \E i \in Slots : /\ IsLive(b[d][i])
                        /\ b[d][i].filename = ReqName(name).name
                        /\ b[d][i].extension = ReqName(name).ext
    THEN CHOOSE i \in Slots :
            /\ IsLive(b[d][i])
            /\ b[d][i].filename = ReqName(name).name
            /\ b[d][i].extension = ReqName(name).ext
            /\ \A j \in 0 .. (i - 1) :
                  ~(/\ IsLive(b[d][j])
                    /\ b[d][j].filename = ReqName(name).name
                    /\ b[d][j].extension = ReqName(name).ext)
    ELSE NO_SLOT

\* The block a directory record with first cluster c leads to: the root for
\* 0, the data cluster otherwise.
LeadsTo(c) == IF c = 0 THEN ROOT ELSE IF c \in Clusters THEN c ELSE BAD_BLOCK

\* The directory block in which component k + 1 of p is looked up: the root
\* for k = 0, else the block that component k leads to; BAD_BLOCK when some
\* component up to k is missing or is no directory.
RECURSIVE DirAfter(_, _, _)
DirAfter(b, p, k) ==
    IF k = 0 THEN ROOT
    ELSE LET d == DirAfter(b, p, k - 1)
             i == IF d = BAD_BLOCK THEN NO_SLOT ELSE MatchIn(b, d, p[k])
         IN  IF i = NO_SLOT THEN BAD_BLOCK
             ELSE IF ~HasDirAttr(b[d][i]) THEN BAD_BLOCK
             ELSE LeadsTo(b[d][i].first_cluster)

\* Component k of p is looked up and not found.
MissingAt(b, p, k) ==
    /\ DirAfter(b, p, k - 1) # BAD_BLOCK
    /\ MatchIn(b, DirAfter(b, p, k - 1), p[k]) = NO_SLOT

\* Component k of p, not the last, is found and is no directory.
NotDirAt(b, p, k) ==
    /\ k < Len(p)
    /\ DirAfter(b, p, k - 1) # BAD_BLOCK
    /\ MatchIn(b, DirAfter(b, p, k - 1), p[k]) # NO_SLOT
    /\ ~HasDirAttr(b[DirAfter(b, p, k - 1)][MatchIn(b, DirAfter(b, p, k - 1), p[k])])

\* What resolving p must give: 0 and the entry of the last component, or the
\* error of the first component that stops the walk.
ResolvesAsClaimed(b, p, r) ==
    /\ (\E k \in 1 .. Len(p) : MissingAt(b, p, k)) => r.res = "ENOENT"
    /\ (\E k \in 1 .. Len(p) : NotDirAt(b, p, k)) => r.res = "ENOTDIR"
    /\ (\A k \in 1 .. Len(p) : ~MissingAt(b, p, k) /\ ~NotDirAt(b, p, k))
          => /\ r.res = "OK"
             /\ r.tb = DirAfter(b, p, Len(p) - 1)
             /\ r.ti = MatchIn(b, r.tb, p[Len(p)])

\* C27: resolving a path other than "/" succeeds, with the entry of the last
\* component, exactly when every component is found (a live record whose 8.3
\* fields equal those of the component, any slot of the block) and every
\* component but the last is a directory; it returns ENOENT at the first
\* component not found and ENOTDIR at a found component, not the last, that
\* is no directory; a first_cluster of 0 leads into the root block.
C27_PathResolution ==
    \A p \in ResolvePaths :
        p # <<>> => ResolvesAsClaimed(blk, p, find_path_entry(blk, p))

\* /a is a directory holding B, /b is a file: "/a/b" and "/a/../a" resolve,
\* "/a/x" and "/x/a" are not found, "/b/a" runs into a file.
C27_Witness ==
    /\ find_path_entry(blk, <<nA, nB>>).res = "OK"
    /\ find_path_entry(blk, <<nA, nB>>).tb = 2
    /\ find_path_entry(blk, <<nA, DOTDOT, nA>>).res = "OK"
    /\ find_path_entry(blk, <<nA, DOTDOT, nA>>).tb = ROOT
    /\ find_path_entry(blk, <<nA, nX>>).res = "ENOENT"
    /\ find_path_entry(blk, <<nX, nA>>).res = "ENOENT"
    /\ find_path_entry(blk, <<nB, nA>>).res = "ENOTDIR"

\* The sizes asked for: below, at and above every size a file can have.
TruncateSizes == 0 .. (MaxOff + MaxLen)

\* The cells of the clusters chained from the entry at q, in the image (f, b).
DataOf(f, b, q) == ChainCells(f, b, FileEntry(q).first_cluster, TOTAL_CLUSTERS)

\* truncate(p, size) returns 0, sets the file_size of the entry at slot
\* (tb, ti) and leaves the FAT, the other fields of the entry, every other
\* cell and the data of every file as they were.
OnlySizeSet(p, size, tb, ti, t) ==
    /\ t.err = "OK"
    /\ t.fat = fat
    /\ t.blk[tb][ti] = [blk[tb][ti] EXCEPT !.file_size = size]
    /\ \A d \in Blocks : \A i \in Slots :
          <<d, i>> # <<tb, ti>> => t.blk[d][i] = blk[d][i]
    /\ \A q \in ClaimPaths :
          (q # <<>> /\ IsFile(q)) => DataOf(fat, t.blk, q) = DataOf(fat, blk, q)

\* C28: truncate(path, size) on a regular file sets the file_size of its
\* entry to size and changes nothing else, no FAT entry, no first_cluster, no
\* data byte and no other directory entry, for a size below or above the old
\* one.
C28_TruncateOnlySetsSize ==
    \A p \in ClaimPaths : \A size \in TruncateSizes :
        (p # <<>> /\ IsFile(p))
            => OnlySizeSet(p, size, find_path_entry(blk, p).tb, find_path_entry(blk, p).ti,
                           fat_truncate(fat, blk, p, size))

\* Where the regions of the image end, in words from the start of the mapping.
SuperblockEnd == Words(SIZEOF_META)
FatEnd == meta.fat_start_offset + meta.total_clusters * Words(SIZEOF_FAT_ENTRY)
RootEnd == meta.root_dir_start_offset + meta.cluster_size
DataEnd == meta.data_area_start_offset + (meta.total_clusters - 2) * meta.cluster_size

\* The superblock, the FAT, the root block and the data area follow one
\* another without overlap and end inside the mapping.
LaidOutInOrder ==
    /\ meta.cluster_size = Words(CLUSTER_BYTES)
    /\ meta.total_clusters = (DISK_SIZE - SIZEOF_META) \div (CLUSTER_BYTES + SIZEOF_FAT_ENTRY)
    /\ meta.total_clusters < 65536
    /\ SuperblockEnd <= meta.fat_start_offset
    /\ FatEnd <= meta.root_dir_start_offset
    /\ RootEnd <= meta.data_area_start_offset
    /\ meta.data_area_start_offset <= DataEnd
    /\ DataEnd <= Words(DISK_SIZE)

\* The cluster located lies where the unbounded arithmetic puts it, inside
\* the data area and inside the mapping.
LocatedInside ==
    probe # NoProbe =>
        /\ probe.cluster \in 2 .. (meta.total_clusters - 1)
        /\ probe.offset = meta.data_area_start_offset + (probe.cluster - 2) * meta.cluster_size
        /\ meta.data_area_start_offset <= probe.offset
        /\ probe.offset + meta.cluster_size <= DataEnd
        /\ probe.offset + meta.cluster_size <= Words(DISK_SIZE)

\* C29: after format, with total_clusters = (DISK_SIZE - sizeof(superblock))
\* / (cluster_size + 2), the superblock, the FAT, the root block and the data
\* area lie in that order and are disjoint, and every data cluster N of
\* 2 .. total_clusters - 1, at data_offset + (N - 2) * cluster_size, lies
\* inside the mapping of DISK_SIZE bytes, with no overflow of the 32-bit
\* offsets or of the 16-bit index.
C29_LayoutFits == LaidOutInOrder /\ LocatedInside

\* The last data cluster has been located.
C29_Witness ==
    /\ probe.cluster = meta.total_clusters - 1
    /\ probe.offset > meta.data_area_start_offset

\* C30: in every state reached from a fresh format no handler indexes the
\* FAT outside 0 .. total_clusters - 1 or touches a data cluster outside
\* 2 .. total_clusters - 1: no call made so far has done so, and no write or
\* read of any buffer at any offset does so in the state reached, also when
\* no cluster is free; the walks never take 0xFFFF or 0 for a cluster number.
C30_ChainWalksInBounds ==
    /\ alive
    /\ \A p \in ClaimPaths : \A a \in WriteArgs(p) :
          fat_write(fat, blk, p, a[1], a[2]).err # "UB"
    /\ \A p \in ClaimPaths : \A a \in ReadArgs(p) :
          fat_read(fat, blk, p, a[1], a[2]).err # "UB"

\* What a read of the whole file gives: the first size cells of what the
\* chain holds.
SeenOf(size, content) == SubSeq(content, 1, Min(size, Len(content)))

\* What a read of the whole file at q gives in the image (f, b).
ReadBack(f, b, q) ==
    SeenOf(RecordOf(b, q).file_size, ChainCells(f, b, RecordOf(b, q).first_cluster, ReadSpan))

\* p and q resolve to different directory entries.
OtherEntry(p, q) ==
    <<find_path_entry(blk, p).tb, find_path_entry(blk, p).ti>>
        # <<find_path_entry(blk, q).tb, find_path_entry(blk, q).ti>>

\* After the write with result w the file at q has the size and the bytes it
\* had before.
KeptBy(q, w) ==
    /\ w.err # "UB"
    /\ RecordOf(w.blk, q).file_size = RecordOf(blk, q).file_size
    /\ ReadBack(w.fat, w.blk, q) = ReadBack(fat, blk, q)

\* C31: write(p, ...) changes only data of p's own chain, p's own entry and
\* the FAT entries of p's chain, so every other file has the same size and
\* reads back the same bytes after the call, in every reachable state, a
\* full disk included.
C31_WriteIsolation ==
    \A p \in ClaimPaths : \A q \in ClaimPaths :
        (IsLiveFile(p) /\ IsLiveFile(q) /\ OtherEntry(p, q))
            => \A buf \in Bufs, off \in Offsets : KeptBy(q, fat_write(fat, blk, p, buf, off))

\* The slots i < j of block d hold live entries with the same name and
\* extension fields.
SameNameTwice(b, d, i, j) ==
    /\ i < j
    /\ IsLive(b[d][i])
    /\ IsLive(b[d][j])
    /\ b[d][i].filename = b[d][j].filename
    /\ b[d][i].extension = b[d][j].extension

\* C32: in every state reached from a fresh format, no directory block holds
\* two live entries with the same 8.3 name and extension.
C32_NoDuplicateNames ==
    \A d \in DirBlocks : \A i \in Slots : \A j \in Slots : ~SameNameTwice(blk, d, i, j)

\* The call with result r has returned a negative error code.
Failed(r) == r.err # "OK" /\ r.err # "UB"

\* A call that failed has left the FAT and every block as they were.
FailsClean(r) == Failed(r) => (r.fat = fat /\ r.blk = blk)

\* C33: whenever mkdir, rmdir, create, unlink, write or truncate returns a
\* negative error code, the FAT, every directory block and every data
\* cluster are what they were before the call.
C33_AtomicFailure ==
    \A p \in ClaimPaths :
        /\ FailsClean(fat_mkdir(fat, blk, p))
        /\ FailsClean(fat_rmdir(fat, blk, p))
        /\ FailsClean(fat_create(fat, blk, p))
        /\ FailsClean(fat_unlink(fat, blk, p))
        /\ \A size \in TruncateArgs(p) : FailsClean(fat_truncate(fat, blk, p, size))
        /\ \A a \in WriteArgs(p) :
              a[2] \in {0, MaxOff} => FailsClean(fat_write(fat, blk, p, a[1], a[2]))

\* Both clusters are taken by /a and /a/b and the root has free slots: mkdir
\* of a new name fails for lack of a cluster, and each of the other handlers
\* fails with an error of its own.
C33_Witness ==
    /\ FreeCount(fat) = 0
    /\ fat_mkdir(fat, blk, <<nX>>).err = "ENOSPC"
    /\ find_free_dir_entry(blk, ROOT) # NO_SLOT
    /\ fat_rmdir(fat, blk, <<nA>>).err = "ENOTEMPTY"
    /\ fat_create(fat, blk, <<nA, nB>>).err = "EEXIST"
    /\ fat_unlink(fat, blk, <<nA>>).err = "EISDIR"
    /\ fat_write(fat, blk, <<nA>>, Pattern(1, 0), 0).err = "EISDIR"
    /\ fat_truncate(fat, blk, <<nX>>, 1).err = "ENOENT"

\* The clusters on the chain of some live entry of the tree: a file's chain
\* or a directory's cluster.
OwnedClusters == UNION {ChainOf(fat, EntryAt(x).first_cluster) : x \in LiveEntries}

\* C34: in every state reached from a fresh format, every cluster of index
\* 2 or more whose FAT entry is not FREE lies on the chain of some live
\* directory entry.
C34_NoLeakedClusters ==
    \A c \in Clusters : fat[c] # FAT_ENTRY_FREE => c \in OwnedClusters

\* Threads t and u are both between the scan and the store of a handler, on
\* different paths.
BothInside(t, u) ==
    /\ t # u
    /\ pc[t] # "idle"
    /\ pc[u] # "idle"
    /\ loc[t].path # loc[u].path

\* The slots the two have picked differ, and so do the clusters when both
\* are allocating one.
ClaimDistinct(t, u) ==
    /\ <<loc[t].parent_dir_data, loc[t].new_entry>> # <<loc[u].parent_dir_data, loc[u].new_entry>>
    /\ (pc[t] = "mkdir" /\ pc[u] = "mkdir") => loc[t].new_cluster_id # loc[u].new_cluster_id

\* C35: when two handlers that allocate run at the same time on different
\* paths, no cluster is handed to both and no directory slot to both: the
\* scan for a free FAT entry or slot and the store that claims it are not
\* interleaved with those of the other call.
C35_NoDoubleAllocation ==
    \A t \in Threads : \A u \in Threads : BothInside(t, u) => ClaimDistinct(t, u)

\* The file at p has never been written: no cluster and no size.
NeverWritten(p) ==
    /\ IsLiveFile(p)
    /\ FileEntry(p).first_cluster = FAT_ENTRY_EOF
    /\ FileEntry(p).file_size = 0

Zeros(n) == [i \in 1 .. n |-> ZeroEntry]

\* After the write with result w, of buf at off into a file never written, a
\* read of the whole file gives zeros up to off and buf from there on.
ReadsZerosThenBuf(p, buf, off, w) ==
    (w.err = "OK" /\ w.n = Len(buf))
        => fat_read(w.fat, w.blk, p, off + Len(buf), 0)
               = RRes("OK", off + Len(buf), Zeros(off) \o buf)

\* The same after a truncate, with result t, that grows the file to the end
\* of its last cluster: zeros follow buf.
ReadsZerosAround(p, buf, off, size, t) ==
    t.err = "OK"
        => fat_read(t.fat, t.blk, p, size, 0)
               = RRes("OK", size, Zeros(off) \o buf \o Zeros(size - (off + Len(buf))))

GrownTo(p, buf, off, size, w) ==
    (w.err = "OK" /\ w.n = Len(buf))
        => ReadsZerosAround(p, buf, off, size, fat_truncate(w.fat, w.blk, p, size))

\* C36: read returns, for each position below file_size, the byte last
\* written to that position of that file, or zero, and never bytes written
\* to another file, unlinked or not: for a file never written, after a write
\* beyond its start, and after a truncate that grows it, the positions not
\* written read as zero.
C36_NoStaleData ==
    \A p \in ClaimPaths :
        NeverWritten(p)
        => \A buf \in Bufs, off \in Offsets :
               /\ ReadsZerosThenBuf(p, buf, off, fat_write(fat, blk, p, buf, off))
               /\ GrownTo(p, buf, off, CLUSTER_SIZE * ClustersFor(off + Len(buf)),
                          fat_write(fat, blk, p, buf, off))

\* Every component of p is found and every one but the last is a directory.
Exists(b, p) == \A k \in 1 .. Len(p) : ~MissingAt(b, p, k) /\ ~NotDirAt(b, p, k)

\* utimens returns 0 for a path that exists and ENOENT for any other.
UtimensZeroOrENOENT ==
    \A p \in ResolvePaths :
        fat_utimens(blk, p) = (IF Exists(blk, p) THEN "OK" ELSE "ENOENT")

\* utimens returns 0 for a path that exists, ENOENT when a component is
\* looked up and not found, ENOTDIR when the path runs through a regular file.
UtimensAsResolved ==
    \A p \in ResolvePaths :
        /\ Exists(blk, p) => fat_utimens(blk, p) = "OK"
        /\ (\E k \in 1 .. Len(p) : MissingAt(blk, p, k)) => fat_utimens(blk, p) = "ENOENT"
        /\ (\E k \in 1 .. Len(p) : NotDirAt(blk, p, k)) => fat_utimens(blk, p) = "ENOTDIR"

\* The call of getattr, readdir, read or utimens, whatever it returns,
\* leaves the FAT and every block as they were.
LastCallOnlyReads ==
    (steps = MaxOps - 1 /\ steps' = MaxOps) => (fat' = fat /\ blk' = blk)

\* C37 as stated: getattr, readdir, read and utimens change nothing in the
\* FAT, the directory blocks and the data clusters, whether they succeed or
\* fail, and utimens returns 0 for an existing path and ENOENT for an absent
\* one.
C37_ReadOnlyENOENT == []UtimensZeroOrENOENT /\ [][LastCallOnlyReads]_vars

\* C37, amended: the four handlers change nothing in the image, and utimens
\* returns what the path resolution returns: 0 for an existing path, ENOENT
\* when a component is missing, ENOTDIR when a component that is not the
\* last is a regular file.
C37_ReadOnly == []UtimensAsResolved /\ [][LastCallOnlyReads]_vars

\* A handler that only reads has been served on an image where /a is a
\* directory and /b a file: utimens gives 0, ENOENT and ENOTDIR.
C37_Witness ==
    /\ steps = MaxOps
    /\ fat # FormatFat
    /\ fat_utimens(blk, <<nA>>) = "OK"
    /\ fat_utimens(blk, <<nB>>) = "OK"
    /\ fat_utimens(blk, <<nA, nX>>) = "ENOENT"
    /\ fat_utimens(blk, <<nB, nA>>) = "ENOTDIR"

====
